---- MODULE Spec2Model ----
(***************************************************************************)
(* Model of the trading-ledger event processor (cpp/):                     *)
(*   - RingBuffer<T, SIZE>     include/RingBuffer.h                        *)
(*   - EventLogReader          src/EventLogReader.cpp                      *)
(*   - EventLogTailer          src/EventLogTailer.cpp                      *)
(*   - producer / consumer / monitor / main   src/event_processor_main.cpp *)
(*                                                                         *)
(* Atomic loads and stores of head_, tail_ and g_running are single steps  *)
(* of an interleaving; the slot write / slot read are steps of their own,  *)
(* between the index load and the index store, as in the source. In the    *)
(* thread functions a branch on a local value belongs to the step that     *)
(* makes the next access to shared state.                                  *)
(***************************************************************************)
EXTENDS Integers, Naturals, Sequences, FiniteSets, TLC

\* ------------------------------------------------------------------ bounds
LogSize == 2          \* ring tests: rings of 2^1 .. 2^LogSize slots
MaxPush == 5          \* ring tests: number of accepted pushes explored
MaxVal == 2           \* ring tests: pushed values are 1..MaxVal

PipeLogSize == 1      \* pipeline: the ring has 2^PipeLogSize slots
MaxRecords == 2       \* pipeline: records the external writer appends
MaxPayload == 1       \* pipeline: payload_length ranges over 0..MaxPayload
PartialCut == 10      \* bytes of a record on disk after a partial header write
ShortTimeoutMs == 20  \* tailer tests: a timeout reached before the backoff interval is 100
MaxFields == 3        \* validator tests: field names in a payload
MaxCalls == 3         \* validator tests: calls of processEvent

Values == 1 .. MaxVal
NoItem == -1          \* an output argument that has not been assigned
ZeroItem == 0         \* value-initialised slot, buffer_{}

\* Event.h
TRADE_CREATED == 1
LEDGER_ENTRIES_GENERATED == 2
POSITION_UPDATED == 3
HeaderSize == 16      \* FileHeader::SIZE
RecordHeader == 24    \* fixed part of a record, before the payload
RecordOverhead == 28  \* fixed part plus the trailing crc32
LogFd == 3            \* descriptor returned by ::open
InotifyFd == 4        \* descriptor returned by inotify_init1
WatchFd == 1          \* watch descriptor returned by inotify_add_watch
WaitTimeoutMs == 100  \* tailer.waitForModification(100)
MIN_POLL_INTERVAL_MS == 10   \* EventLogTailer.h
MAX_POLL_INTERVAL_MS == 100

VARIABLES
    \* RingBuffer<T, SIZE>: the template argument and the members
    SIZE, head_, tail_, buffer_,
    \* try_push frame (producer thread)
    ppc, current_tail, next_tail, p_item, push_ret,
    \* try_pop frame (consumer thread)
    cpc, current_head, c_item, pop_ret,
    \* history: accepted / returned values, occupancy seen at the index loads
    pushed, popped, push_obs, pop_obs,
    \* the log file on disk, the kernel's view of this process, signals
    file_kind, disk, tail_rec, tail_bytes, inotify_pending, select_intr, kern,
    \* EventLogReader / EventLogTailer objects of the producer thread
    reader, tailer,
    \* event_processor_main.cpp
    g_running, events_read, events_processed,
    mpc, mainpc, exit_code,
    \* history of the pipeline
    read_log, processed, signalled, error_logged, io_fault,
    \* which workers took their error path (the catch blocks)
    failed,
    \* event_log_reader_test.cpp: the last call made on the reader and its outcome
    rt,
    \* event_parser_test.cpp: the last call made on the parser and its outcome
    pt

ringVars == <<SIZE, head_, tail_, buffer_>>
pushVars == <<ppc, current_tail, next_tail, p_item, push_ret>>
popVars == <<cpc, current_head, c_item, pop_ret>>
histVars == <<pushed, popped, push_obs, pop_obs>>
envVars == <<file_kind, disk, tail_rec, tail_bytes, inotify_pending, select_intr, kern>>
objVars == <<reader, tailer>>
sharedVars == <<g_running, events_read, events_processed>>
monVars == <<mpc>>
mainVars == <<mainpc, exit_code>>
logVars == <<read_log, processed, signalled, error_logged, io_fault>>
pipeVars == <<envVars, objVars, sharedVars, monVars, mainVars, logVars>>
obsVars == <<failed, rt, pt>>
vars == <<ringVars, pushVars, popVars, histVars, pipeVars, obsVars>>

\* ------------------------------------------------------------ RingBuffer.h
RECURSIVE BitAnd(_, _)
BitAnd(a, b) ==
    IF a = 0 \/ b = 0 THEN 0
    ELSE (a % 2) * (b % 2) + 2 * BitAnd(a \div 2, b \div 2)

\* a variant that masks with SIZE instead of SIZE - 1
NextIndexWrongMask(i) == BitAnd(i + 1, SIZE)

\* (index + 1) & (SIZE - 1)
NextIndex(i) == BitAnd(i + 1, SIZE - 1)

\* number of items pushed and not yet popped
Unpopped == Len(pushed) - Len(popped)

\* static_assert((SIZE & (SIZE - 1)) == 0); static_assert(SIZE > 0)
\* (for SIZE = 0 the unsigned SIZE - 1 is all ones and the conjunction is 0)
StaticAssertOk(n) == BitAnd(n, n - 1) = 0 /\ n > 0

\* RingBuffer() : head_(0), tail_(0), buffer_{}
RingInit ==
    /\ StaticAssertOk(SIZE)
    /\ head_ = 0
    /\ tail_ = 0
    /\ buffer_ = [i \in 0 .. SIZE - 1 |-> ZeroItem]

\* size_t current_tail = tail_.load(relaxed); next_tail = (current_tail + 1) & (SIZE - 1)
try_push_load_tail ==
    /\ ppc = "push_load_tail"
    /\ current_tail' = tail_
    /\ next_tail' = NextIndex(tail_)
    /\ ppc' = "push_load_head"
    /\ UNCHANGED <<ringVars, p_item, push_ret, popVars, histVars, pipeVars>>
    /\ UNCHANGED obsVars

\* a variant that takes head == tail (the empty ring) for the full ring
try_push_load_head_empty_is_full ==
    /\ ppc = "push_load_head"
    /\ push_obs' = Unpopped
    /\ IF current_tail = head_
       THEN /\ push_ret' = FALSE
            /\ ppc' = "push_ret"
       ELSE /\ push_ret' = push_ret
            /\ ppc' = "push_write"
    /\ UNCHANGED <<ringVars, current_tail, next_tail, p_item, popVars,
                   pushed, popped, pop_obs, pipeVars>>
    /\ UNCHANGED obsVars

\* a variant that waits for a free slot instead of returning false
try_push_load_head_waits ==
    /\ ppc = "push_load_head"
    /\ next_tail # head_
    /\ push_obs' = Unpopped
    /\ push_ret' = push_ret
    /\ ppc' = "push_write"
    /\ UNCHANGED <<ringVars, current_tail, next_tail, p_item, popVars,
                   pushed, popped, pop_obs, pipeVars>>
    /\ UNCHANGED obsVars

\* if (next_tail == head_.load(acquire)) return false;
try_push_load_head ==
    /\ ppc = "push_load_head"
    /\ push_obs' = Unpopped
    /\ IF next_tail = head_
       THEN /\ push_ret' = FALSE
            /\ ppc' = "push_ret"
       ELSE /\ push_ret' = push_ret
            /\ ppc' = "push_write"
    /\ UNCHANGED <<ringVars, current_tail, next_tail, p_item, popVars,
                   pushed, popped, pop_obs, pipeVars>>
    /\ UNCHANGED obsVars

\* a variant that writes the item to slot next_tail
try_push_write_next_slot ==
    /\ ppc = "push_write"
    /\ buffer_' = [buffer_ EXCEPT ![next_tail] = p_item]
    /\ ppc' = "push_store"
    /\ UNCHANGED <<SIZE, head_, tail_, current_tail, next_tail, p_item, push_ret,
                   popVars, histVars, pipeVars>>
    /\ UNCHANGED obsVars

\* buffer_[current_tail] = std::move(item);
try_push_write ==
    /\ ppc = "push_write"
    /\ buffer_' = [buffer_ EXCEPT ![current_tail] = p_item]
    /\ ppc' = "push_store"
    /\ UNCHANGED <<SIZE, head_, tail_, current_tail, next_tail, p_item, push_ret,
                   popVars, histVars, pipeVars>>
    /\ UNCHANGED obsVars

\* a variant that advances tail by two
try_push_store_tail_by_two ==
    /\ ppc = "push_store"
    /\ tail_' = NextIndex(next_tail)
    /\ pushed' = Append(pushed, p_item)
    /\ push_ret' = TRUE
    /\ ppc' = "push_ret"
    /\ UNCHANGED <<SIZE, head_, buffer_, current_tail, next_tail, p_item, popVars,
                   popped, push_obs, pop_obs, pipeVars>>
    /\ UNCHANGED obsVars

\* tail_.store(next_tail, release); return true;
try_push_store_tail ==
    /\ ppc = "push_store"
    /\ tail_' = next_tail
    /\ pushed' = Append(pushed, p_item)
    /\ push_ret' = TRUE
    /\ ppc' = "push_ret"
    /\ UNCHANGED <<SIZE, head_, buffer_, current_tail, next_tail, p_item, popVars,
                   popped, push_obs, pop_obs, pipeVars>>
    /\ UNCHANGED obsVars

\* size_t current_head = head_.load(relaxed);
try_pop_load_head ==
    /\ cpc = "pop_load_head"
    /\ current_head' = head_
    /\ cpc' = "pop_load_tail"
    /\ UNCHANGED <<ringVars, pushVars, c_item, pop_ret, histVars, pipeVars>>
    /\ UNCHANGED obsVars

\* a variant that goes on to read the slot without comparing head with tail
try_pop_load_tail_unchecked ==
    /\ cpc = "pop_load_tail"
    /\ pop_obs' = Unpopped
    /\ pop_ret' = pop_ret
    /\ cpc' = "pop_read"
    /\ UNCHANGED <<ringVars, pushVars, current_head, c_item,
                   pushed, popped, push_obs, pipeVars>>
    /\ UNCHANGED obsVars

\* a variant that moves the slot at current_head into the output argument
\* before comparing head with tail
try_pop_load_tail_moves_first ==
    /\ cpc = "pop_load_tail"
    /\ pop_obs' = Unpopped
    /\ c_item' = buffer_[current_head]
    /\ IF current_head = tail_
       THEN /\ pop_ret' = FALSE
            /\ cpc' = "pop_ret"
       ELSE /\ pop_ret' = pop_ret
            /\ cpc' = "pop_read"
    /\ UNCHANGED <<ringVars, pushVars, current_head,
                   pushed, popped, push_obs, pipeVars>>
    /\ UNCHANGED obsVars

\* if (current_head == tail_.load(acquire)) return false;
try_pop_load_tail ==
    /\ cpc = "pop_load_tail"
    /\ pop_obs' = Unpopped
    /\ IF current_head = tail_
       THEN /\ pop_ret' = FALSE
            /\ cpc' = "pop_ret"
       ELSE /\ pop_ret' = pop_ret
            /\ cpc' = "pop_read"
    /\ UNCHANGED <<ringVars, pushVars, current_head, c_item,
                   pushed, popped, push_obs, pipeVars>>
    /\ UNCHANGED obsVars

\* item = std::move(buffer_[current_head]);
try_pop_read ==
    /\ cpc = "pop_read"
    /\ c_item' = buffer_[current_head]
    /\ cpc' = "pop_store"
    /\ UNCHANGED <<ringVars, pushVars, current_head, pop_ret, histVars, pipeVars>>
    /\ UNCHANGED obsVars

\* a variant that stores current_head back, without advancing
try_pop_store_head_stuck ==
    /\ cpc = "pop_store"
    /\ head_' = current_head
    /\ popped' = Append(popped, c_item)
    /\ pop_ret' = TRUE
    /\ cpc' = "pop_ret"
    /\ UNCHANGED <<SIZE, tail_, buffer_, pushVars, current_head, c_item,
                   pushed, push_obs, pop_obs, pipeVars>>
    /\ UNCHANGED obsVars

\* head_.store((current_head + 1) & (SIZE - 1), release); return true;
try_pop_store_head ==
    /\ cpc = "pop_store"
    /\ head_' = NextIndex(current_head)
    /\ popped' = Append(popped, c_item)
    /\ pop_ret' = TRUE
    /\ cpc' = "pop_ret"
    /\ UNCHANGED <<SIZE, tail_, buffer_, pushVars, current_head, c_item,
                   pushed, push_obs, pop_obs, pipeVars>>
    /\ UNCHANGED obsVars

\* the frame of a try_push / try_pop call is gone once the caller has used
\* the returned value
PushFrameGone ==
    /\ current_tail' = 0
    /\ next_tail' = 0
    /\ push_ret' = FALSE
    /\ push_obs' = 0

PopFrameGone ==
    /\ current_head' = 0
    /\ pop_ret' = FALSE
    /\ pop_obs' = 0

\* bool empty() const
empty == head_ = tail_

\* size_t size() const
size == IF tail_ >= head_ THEN tail_ - head_ ELSE SIZE - head_ + tail_

\* constexpr size_t capacity() const
capacity == SIZE - 1

\* ------------------------------------------- ring_buffer_test.cpp (SPSC)
\* producer thread of the SPSC tests: buffer.try_push(v)
TestProducerCall ==
    /\ ppc = "idle"
    /\ Len(pushed) < MaxPush
    /\ \E v \in Values : p_item' = v
    /\ ppc' = "push_load_tail"
    /\ UNCHANGED <<ringVars, current_tail, next_tail, push_ret, popVars, histVars, pipeVars>>
    /\ UNCHANGED obsVars

\* the call returns to the test's loop (retry or next item)
TestProducerReturn ==
    /\ ppc = "push_ret"
    /\ ppc' = "idle"
    /\ PushFrameGone
    /\ p_item' = NoItem
    /\ UNCHANGED <<ringVars, popVars, pushed, popped, pop_obs, pipeVars>>
    /\ UNCHANGED obsVars

\* consumer thread of the SPSC tests: int item; buffer.try_pop(item)
TestConsumerCall ==
    /\ cpc = "idle"
    /\ c_item' = NoItem
    /\ cpc' = "pop_load_head"
    /\ UNCHANGED <<ringVars, pushVars, current_head, pop_ret, histVars, pipeVars>>
    /\ UNCHANGED obsVars

TestConsumerReturn ==
    /\ cpc = "pop_ret"
    /\ cpc' = "idle"
    /\ PopFrameGone
    /\ c_item' = NoItem
    /\ UNCHANGED <<ringVars, pushVars, pushed, popped, push_obs, pipeVars>>
    /\ UNCHANGED obsVars

\* a monitoring thread calls buffer.size() while the two threads run:
\* size_t h = head_.load(relaxed);
size_load_head ==
    /\ rt.op \in {"none", "size"}
    /\ rt' = [rt EXCEPT !.op = "size_load_tail", !.h = head_]
    /\ failed' = failed
    /\ pt' = pt
    /\ UNCHANGED <<ringVars, pushVars, popVars, histVars, pipeVars>>

\* a variant that returns SIZE - h + t without comparing t with h
size_load_tail_always_wraps ==
    /\ rt.op = "size_load_tail"
    /\ rt' = [rt EXCEPT !.op = "size", !.h = 0, !.size_ret = SIZE - rt.h + tail_]
    /\ failed' = failed
    /\ pt' = pt
    /\ UNCHANGED <<ringVars, pushVars, popVars, histVars, pipeVars>>

\* size_t t = tail_.load(relaxed); return (t >= h) ? (t - h) : (SIZE - h + t);
size_load_tail ==
    /\ rt.op = "size_load_tail"
    /\ LET h == rt.h
           t == tail_
       IN rt' = [rt EXCEPT !.op = "size", !.h = 0,
                           !.size_ret = IF t >= h THEN t - h ELSE SIZE - h + t]
    /\ failed' = failed
    /\ pt' = pt
    /\ UNCHANGED <<ringVars, pushVars, popVars, histVars, pipeVars>>

\* ------------------------------------------------- the log file on disk
\* A record on disk: the fields of Event.h's layout; crc_ok tells whether the
\* stored crc32 equals the CRC of bytes [0, 24 + payload_length).
\* payload_length is the number of payload bytes the writer wrote;
\* stored_length is what bytes 20..23 of the record say, a uint32_t held as its
\* 32-bit two's-complement reading, so that 28 + stored_length is the sum
\* modulo 2^32 (0xFFFFFFFF is -1 and 28 + 0xFFFFFFFF is 27).
TotalSize(rec) == RecordOverhead + rec.payload_length

\* complete records followed by the record the writer has written in part
AllRecs == IF tail_bytes > 0 THEN Append(disk, tail_rec) ELSE disk

RECURSIVE SumSizes(_, _)
SumSizes(recs, n) ==
    IF n = 0 THEN 0 ELSE SumSizes(recs, n - 1) + TotalSize(recs[n])

\* byte offset of the i-th record (1-based) in the file
StartOf(i) == HeaderSize + SumSizes(AllRecs, i - 1)

\* st_size of the file
DiskSize ==
    IF file_kind = "too_small" THEN HeaderSize - 1
    ELSE HeaderSize + SumSizes(disk, Len(disk)) + tail_bytes

\* the bytes of the mapping at offset off, as the record they belong to;
\* bytes that are not the start of a record frame as a record whose CRC fails
GarbageRec == [sequence_num |-> 0, event_type |-> 0, payload_length |-> 0, stored_length |-> 0, crc_ok |-> FALSE]
RecordAt(off) ==
    LET idx == {i \in 1 .. Len(AllRecs) : StartOf(i) = off}
    IN IF idx = {} THEN GarbageRec ELSE AllRecs[CHOOSE i \in idx : TRUE]

\* the Event a record parses to (EventParser::parse, fields copied out)
EventOf(rec) ==
    [sequence_num |-> rec.sequence_num, event_type |-> rec.event_type,
     payload_length |-> rec.payload_length]

\* Event event;  (default-initialised)
DefaultEvent == [sequence_num |-> 0, event_type |-> 0, payload_length |-> 0]

\* the events of the complete, intact records of the file, in file order
RECURSIVE FileEvents(_)
FileEvents(recs) ==
    IF recs = <<>> THEN <<>>
    ELSE <<EventOf(Head(recs))>> \o FileEvents(Tail(recs))

\* ------------------------------------------------- kernel resources
\* fds: descriptors open in this process; maps: live mappings;
\* bad_close / bad_unmap: close or munmap of something not open / not mapped
KOpen(k, fd) == [k EXCEPT !.fds = @ \cup {fd}]
KClose(k, fd) ==
    IF fd \in k.fds THEN [k EXCEPT !.fds = @ \ {fd}]
    ELSE [k EXCEPT !.bad_close = TRUE]
KMmap(k) == [k EXCEPT !.maps = @ + 1]
KMunmap(k) ==
    IF k.maps > 0 THEN [k EXCEPT !.maps = @ - 1]
    ELSE [k EXCEPT !.bad_unmap = TRUE]

KernInit == [fds |-> {}, maps |-> 0, bad_close |-> FALSE, bad_unmap |-> FALSE]

\* values of mapped_data_: no mapping yet, a failed mmap, the address of a mapping
nullptr == "nullptr"
MAP_FAILED == "MAP_FAILED"
Mapped == "mapped"

\* ------------------------------------------------- EventLogReader.cpp
\* EventLogReader::EventLogReader
ReaderInit ==
    [fd_ |-> -1, mapped_data_ |-> nullptr, file_size_ |-> 0, offset_ |-> 0,
     is_open_ |-> FALSE]

\* a variant of the destructor that unmaps only a reader that is open
ReaderDtorOpenOnly(r, k) ==
    LET k1 == IF r.is_open_ /\ r.mapped_data_ # MAP_FAILED THEN KMunmap(k) ELSE k
    IN IF r.fd_ >= 0 THEN KClose(k1, r.fd_) ELSE k1

\* EventLogReader::~EventLogReader: the kernel state after the destructor
ReaderDtor(r, k) ==
    LET k1 == IF r.mapped_data_ # nullptr /\ r.mapped_data_ # MAP_FAILED
              THEN KMunmap(k) ELSE k
    IN IF r.fd_ >= 0 THEN KClose(k1, r.fd_) ELSE k1

\* EventParser::parseFileHeader on the first 16 mapped bytes
parseFileHeaderOk == file_kind # "bad_header"

\* a variant that marks the reader open before the header is validated
openBeforeHeaderCheck(r, k, stat_ok, mmap_ok) ==
    IF file_kind = "missing"
    THEN [r |-> [r EXCEPT !.fd_ = -1], k |-> k, threw |-> TRUE]
    ELSE IF ~stat_ok \/ DiskSize < HeaderSize
    THEN [r |-> [r EXCEPT !.fd_ = LogFd, !.file_size_ = IF stat_ok THEN DiskSize ELSE @],
          k |-> KClose(KOpen(k, LogFd), LogFd), threw |-> TRUE]
    ELSE IF ~mmap_ok
    THEN [r |-> [r EXCEPT !.fd_ = LogFd, !.file_size_ = DiskSize,
                          !.mapped_data_ = MAP_FAILED],
          k |-> KClose(KOpen(k, LogFd), LogFd), threw |-> TRUE]
    ELSE [r |-> [r EXCEPT !.fd_ = LogFd, !.file_size_ = DiskSize,
                          !.mapped_data_ = Mapped, !.offset_ = HeaderSize,
                          !.is_open_ = TRUE],
          k |-> KMmap(KOpen(k, LogFd)), threw |-> ~parseFileHeaderOk]

\* EventLogReader::open; stat_ok / mmap_ok: whether fstat / mmap succeed
open(r, k, stat_ok, mmap_ok) ==
    IF file_kind = "missing"
    THEN [r |-> [r EXCEPT !.fd_ = -1], k |-> k, threw |-> TRUE]
    ELSE
    LET r1 == [r EXCEPT !.fd_ = LogFd]
        k1 == KOpen(k, LogFd)
    IN IF ~stat_ok
       THEN [r |-> r1, k |-> KClose(k1, r1.fd_), threw |-> TRUE]
       ELSE
       LET r2 == [r1 EXCEPT !.file_size_ = DiskSize]
       IN IF r2.file_size_ < HeaderSize
          THEN [r |-> r2, k |-> KClose(k1, r2.fd_), threw |-> TRUE]
          ELSE IF ~mmap_ok
          THEN [r |-> [r2 EXCEPT !.mapped_data_ = MAP_FAILED],
                k |-> KClose(k1, r2.fd_), threw |-> TRUE]
          ELSE
          LET k3 == KMmap(k1)
              r3 == [r2 EXCEPT !.mapped_data_ = Mapped]
          IN IF ~parseFileHeaderOk
             THEN [r |-> r3, k |-> k3, threw |-> TRUE]
             ELSE [r |-> [r3 EXCEPT !.offset_ = HeaderSize, !.is_open_ = TRUE],
                   k |-> k3, threw |-> FALSE]

\* what a call threw
NoException == "none"
RuntimeError == "std::runtime_error"
ParseException == "ParseException"
CorruptedEventException == "CorruptedEventException"

\* a variant that returns the record without advancing offset_
readNextNoAdvance(r, event) ==
    IF ~r.is_open_ \/ r.offset_ + RecordHeader > r.file_size_
    THEN [r |-> r, ret |-> FALSE, threw |-> ~r.is_open_,
          what |-> IF r.is_open_ THEN NoException ELSE RuntimeError, event |-> event]
    ELSE
    LET rec == RecordAt(r.offset_)
    IN IF r.offset_ + RecordOverhead + rec.payload_length > r.file_size_
       THEN [r |-> r, ret |-> FALSE, threw |-> FALSE, what |-> NoException,
             event |-> event]
       ELSE [r |-> r, ret |-> rec.crc_ok, threw |-> ~rec.crc_ok,
             what |-> IF rec.crc_ok THEN NoException ELSE CorruptedEventException,
             event |-> IF rec.crc_ok THEN EventOf(rec) ELSE event]

\* a variant that treats an incomplete record at the end as an error
readNextThrowsOnPartial(r, event) ==
    IF ~r.is_open_
    THEN [r |-> r, ret |-> FALSE, threw |-> TRUE, what |-> RuntimeError,
          event |-> event]
    ELSE IF r.offset_ >= r.file_size_
    THEN [r |-> r, ret |-> FALSE, threw |-> FALSE, what |-> NoException,
          event |-> event]
    ELSE IF r.offset_ + RecordHeader > r.file_size_
            \/ r.offset_ + TotalSize(RecordAt(r.offset_)) > r.file_size_
    THEN [r |-> r, ret |-> FALSE, threw |-> TRUE, what |-> ParseException,
          event |-> event]
    ELSE IF ~RecordAt(r.offset_).crc_ok
    THEN [r |-> r, ret |-> FALSE, threw |-> TRUE,
          what |-> CorruptedEventException, event |-> event]
    ELSE [r |-> [r EXCEPT !.offset_ = @ + TotalSize(RecordAt(r.offset_))],
          ret |-> TRUE, threw |-> FALSE, what |-> NoException,
          event |-> EventOf(RecordAt(r.offset_))]

\* a variant that advances offset_ by the payload length only
readNextShortAdvance(r, event) ==
    IF ~r.is_open_
    THEN [r |-> r, ret |-> FALSE, threw |-> TRUE, what |-> RuntimeError,
          event |-> event]
    ELSE IF r.offset_ + RecordHeader > r.file_size_
            \/ r.offset_ + TotalSize(RecordAt(r.offset_)) > r.file_size_
    THEN [r |-> r, ret |-> FALSE, threw |-> FALSE, what |-> NoException,
          event |-> event]
    ELSE IF ~RecordAt(r.offset_).crc_ok
    THEN [r |-> r, ret |-> FALSE, threw |-> TRUE,
          what |-> CorruptedEventException, event |-> event]
    ELSE [r |-> [r EXCEPT !.offset_ = @ + RecordHeader + RecordAt(r.offset_).payload_length],
          ret |-> TRUE, threw |-> FALSE, what |-> NoException,
          event |-> EventOf(RecordAt(r.offset_))]

\* a variant that assigns the parsed fields to the caller's event and moves
\* past the record before the CRC is compared
readNextAssignsBeforeCrc(r, event) ==
    IF ~r.is_open_
    THEN [r |-> r, ret |-> FALSE, threw |-> TRUE, what |-> RuntimeError,
          event |-> event]
    ELSE IF r.offset_ + RecordHeader > r.file_size_
            \/ r.offset_ + TotalSize(RecordAt(r.offset_)) > r.file_size_
    THEN [r |-> r, ret |-> FALSE, threw |-> FALSE, what |-> NoException,
          event |-> event]
    ELSE [r |-> [r EXCEPT !.offset_ = @ + TotalSize(RecordAt(r.offset_))],
          ret |-> RecordAt(r.offset_).crc_ok,
          threw |-> ~RecordAt(r.offset_).crc_ok,
          what |-> IF RecordAt(r.offset_).crc_ok THEN NoException
                   ELSE CorruptedEventException,
          event |-> EventOf(RecordAt(r.offset_))]

\* EventLogReader::readNext(Event& event); event: the caller's object, which
\* is assigned only when EventParser::parse returns
readNext(r, event) ==
    IF ~r.is_open_
    THEN [r |-> r, ret |-> FALSE, threw |-> TRUE, what |-> RuntimeError,
          event |-> event]
    ELSE IF r.offset_ >= r.file_size_
    THEN [r |-> r, ret |-> FALSE, threw |-> FALSE, what |-> NoException,
          event |-> event]
    ELSE IF r.offset_ + RecordHeader > r.file_size_
    THEN [r |-> r, ret |-> FALSE, threw |-> FALSE, what |-> NoException,
          event |-> event]
    ELSE
    LET rec == RecordAt(r.offset_)
        \* size_t total_size = 28 + payload_length, a 32-bit sum
        total_size == RecordOverhead + rec.stored_length
    IN IF r.offset_ + total_size > r.file_size_
       THEN [r |-> r, ret |-> FALSE, threw |-> FALSE, what |-> NoException,
             event |-> event]
       \* EventParser::parse: if (length < 28) throw ParseException
       ELSE IF total_size < RecordOverhead
       THEN [r |-> r, ret |-> FALSE, threw |-> TRUE,
             what |-> ParseException, event |-> event]
       ELSE IF ~rec.crc_ok
       THEN [r |-> r, ret |-> FALSE, threw |-> TRUE,
             what |-> CorruptedEventException, event |-> event]
       ELSE [r |-> [r EXCEPT !.offset_ = @ + total_size],
             ret |-> TRUE, threw |-> FALSE, what |-> NoException,
             event |-> EventOf(rec)]

\* a variant of the bytes read that parses without asking whether the whole
\* record is mapped
readNextReadsUnchecked(r) ==
    IF ~r.is_open_ \/ r.offset_ >= r.file_size_
       \/ r.offset_ + RecordHeader > r.file_size_
    THEN {}
    ELSE
    LET payload_length == RecordAt(r.offset_).stored_length
        total_size == RecordOverhead + payload_length
    IN IF total_size < RecordOverhead
       THEN (r.offset_ + 20) .. (r.offset_ + 23)
       ELSE r.offset_ .. (r.offset_ + RecordHeader + payload_length + 3)

\* EventLogReader::readNext: the positions of the mapping the call reads.
\* readUint32LE(header_ptr + 20) reads bytes 20..23 of the record;
\* EventParser::parse reads nothing when length < 28 and otherwise the
\* header, payload_length bytes of payload and the four bytes of the crc32.
readNextReads(r) ==
    IF ~r.is_open_ \/ r.offset_ >= r.file_size_
       \/ r.offset_ + RecordHeader > r.file_size_
    THEN {}
    ELSE
    LET payload_length == RecordAt(r.offset_).stored_length
        total_size == RecordOverhead + payload_length
    IN IF r.offset_ + total_size > r.file_size_ \/ total_size < RecordOverhead
       THEN (r.offset_ + 20) .. (r.offset_ + 23)
       ELSE r.offset_ .. (r.offset_ + RecordHeader + payload_length + 3)

\* a variant with the size comparison inverted: a grown file is never re-mapped
remapIfGrownInverted(r, k, stat_ok, munmap_ok, mmap_ok) ==
    IF ~r.is_open_ \/ ~stat_ok \/ DiskSize >= r.file_size_
    THEN [r |-> r, k |-> k, ret |-> FALSE, threw |-> FALSE]
    ELSE [r |-> [r EXCEPT !.file_size_ = DiskSize], k |-> k, ret |-> TRUE,
          threw |-> FALSE]

\* a variant that maps the grown file but keeps the old file_size_
remapIfGrownKeepsSize(r, k, stat_ok, munmap_ok, mmap_ok) ==
    IF ~r.is_open_ \/ ~stat_ok \/ DiskSize <= r.file_size_
    THEN [r |-> r, k |-> k, ret |-> FALSE, threw |-> FALSE]
    ELSE IF ~munmap_ok
    THEN [r |-> r, k |-> k, ret |-> FALSE, threw |-> TRUE]
    ELSE IF ~mmap_ok
    THEN [r |-> [r EXCEPT !.mapped_data_ = MAP_FAILED], k |-> KMunmap(k),
          ret |-> FALSE, threw |-> TRUE]
    ELSE [r |-> [r EXCEPT !.mapped_data_ = Mapped], k |-> KMmap(KMunmap(k)),
          ret |-> TRUE, threw |-> FALSE]

\* a variant that starts again at the first record after a re-map
remapIfGrownRewinds(r, k, stat_ok, munmap_ok, mmap_ok) ==
    IF ~r.is_open_ \/ ~stat_ok \/ DiskSize <= r.file_size_
    THEN [r |-> r, k |-> k, ret |-> FALSE, threw |-> FALSE]
    ELSE IF ~munmap_ok
    THEN [r |-> r, k |-> k, ret |-> FALSE, threw |-> TRUE]
    ELSE IF ~mmap_ok
    THEN [r |-> [r EXCEPT !.mapped_data_ = MAP_FAILED, !.file_size_ = DiskSize],
          k |-> KMunmap(k), ret |-> FALSE, threw |-> TRUE]
    ELSE [r |-> [r EXCEPT !.mapped_data_ = Mapped, !.file_size_ = DiskSize,
                          !.offset_ = HeaderSize],
          k |-> KMmap(KMunmap(k)), ret |-> TRUE, threw |-> FALSE]

\* a variant that moves the offset to the end of the new mapping
remapIfGrownSkipsToEnd(r, k, stat_ok, munmap_ok, mmap_ok) ==
    IF ~r.is_open_ \/ ~stat_ok \/ DiskSize <= r.file_size_
    THEN [r |-> r, k |-> k, ret |-> FALSE, threw |-> FALSE]
    ELSE IF ~munmap_ok
    THEN [r |-> r, k |-> k, ret |-> FALSE, threw |-> TRUE]
    ELSE IF ~mmap_ok
    THEN [r |-> [r EXCEPT !.mapped_data_ = MAP_FAILED, !.file_size_ = DiskSize],
          k |-> KMunmap(k), ret |-> FALSE, threw |-> TRUE]
    ELSE [r |-> [r EXCEPT !.mapped_data_ = Mapped, !.file_size_ = DiskSize,
                          !.offset_ = DiskSize],
          k |-> KMmap(KMunmap(k)), ret |-> TRUE, threw |-> FALSE]

\* a variant that also re-maps a file of unchanged size: new_size < file_size_
remapIfGrownOnEqual(r, k, stat_ok, munmap_ok, mmap_ok) ==
    IF ~r.is_open_ \/ ~stat_ok \/ DiskSize < r.file_size_
    THEN [r |-> r, k |-> k, ret |-> FALSE, threw |-> FALSE]
    ELSE IF ~munmap_ok
    THEN [r |-> r, k |-> k, ret |-> FALSE, threw |-> TRUE]
    ELSE IF ~mmap_ok
    THEN [r |-> [r EXCEPT !.mapped_data_ = MAP_FAILED, !.file_size_ = DiskSize],
          k |-> KMunmap(k), ret |-> FALSE, threw |-> TRUE]
    ELSE [r |-> [r EXCEPT !.mapped_data_ = Mapped, !.file_size_ = DiskSize],
          k |-> KMmap(KMunmap(k)), ret |-> TRUE, threw |-> FALSE]

\* EventLogReader::remapIfGrown; stat_ok / munmap_ok / mmap_ok: whether the
\* system calls succeed
remapIfGrown(r, k, stat_ok, munmap_ok, mmap_ok) ==
    IF ~r.is_open_
    THEN [r |-> r, k |-> k, ret |-> FALSE, threw |-> FALSE]
    ELSE IF ~stat_ok
    THEN [r |-> r, k |-> k, ret |-> FALSE, threw |-> FALSE]
    ELSE IF DiskSize <= r.file_size_
    THEN [r |-> r, k |-> k, ret |-> FALSE, threw |-> FALSE]
    ELSE IF ~munmap_ok
    THEN [r |-> r, k |-> k, ret |-> FALSE, threw |-> TRUE]
    ELSE
    LET k1 == KMunmap(k)
        r1 == [r EXCEPT !.file_size_ = DiskSize]
    IN IF ~mmap_ok
       THEN [r |-> [r1 EXCEPT !.mapped_data_ = MAP_FAILED], k |-> k1,
             ret |-> FALSE, threw |-> TRUE]
       ELSE [r |-> [r1 EXCEPT !.mapped_data_ = Mapped], k |-> KMmap(k1),
             ret |-> TRUE, threw |-> FALSE]

\* ------------------------------------------------- EventLogTailer.cpp (Linux)
\* EventLogTailer::EventLogTailer
TailerInit == [inotify_fd_ |-> -1, watch_fd_ |-> -1]

\* EventLogTailer::~EventLogTailer: the kernel state after the destructor
TailerDtor(t, k) ==
    IF t.inotify_fd_ >= 0 THEN KClose(k, t.inotify_fd_) ELSE k

\* EventLogTailer::init; init_ok / watch_ok: whether inotify_init1 /
\* inotify_add_watch succeed
init(t, k, init_ok, watch_ok) ==
    IF ~init_ok
    THEN [t |-> [t EXCEPT !.inotify_fd_ = -1], k |-> k, threw |-> TRUE]
    ELSE
    LET t1 == [t EXCEPT !.inotify_fd_ = InotifyFd]
        k1 == KOpen(k, InotifyFd)
    IN IF ~watch_ok
       THEN [t |-> [t1 EXCEPT !.watch_fd_ = -1], k |-> KClose(k1, t1.inotify_fd_),
             threw |-> TRUE]
       ELSE [t |-> [t1 EXCEPT !.watch_fd_ = WatchFd], k |-> k1, threw |-> FALSE]

\* a variant that reports a timeout as a modification
waitForModificationTimeoutTrue(timeout_ms, select_ret, read_ok) ==
    IF select_ret < 0 THEN [ret |-> FALSE, threw |-> TRUE, drained |-> FALSE]
    ELSE IF select_ret = 0 THEN [ret |-> TRUE, threw |-> FALSE, drained |-> FALSE]
    ELSE IF ~read_ok THEN [ret |-> FALSE, threw |-> TRUE, drained |-> FALSE]
    ELSE [ret |-> TRUE, threw |-> FALSE, drained |-> TRUE]

\* EventLogTailer::waitForModification(timeout_ms), inotify build.
\* select_ret: what select returned (-1 error, 0 timeout, 1 readable);
\* read_ok: whether the draining read succeeds (or fails with EAGAIN)
waitForModification(timeout_ms, select_ret, read_ok) ==
    IF select_ret < 0 THEN [ret |-> FALSE, threw |-> TRUE, drained |-> FALSE]
    ELSE IF select_ret = 0 THEN [ret |-> FALSE, threw |-> FALSE, drained |-> FALSE]
    ELSE IF ~read_ok THEN [ret |-> FALSE, threw |-> TRUE, drained |-> FALSE]
    ELSE [ret |-> TRUE, threw |-> FALSE, drained |-> TRUE]

\* the values select can return: readable when an event is queued, a timeout
\* only with a finite timeout and nothing queued, -1 (EINTR) when a signal
\* handler ran on this thread during the call
SelectReturns(timeout_ms) ==
    IF select_intr THEN {-1}
    ELSE IF inotify_pending THEN {1}
    ELSE IF timeout_ms > 0 THEN {0}
    ELSE {}

\* a variant that keeps the backoff interval when growth is detected
waitForModificationPollingNoReset(t, timeout_ms, current_size, elapsed) ==
    IF current_size > t.last_known_size_
    THEN [done |-> TRUE, ret |-> TRUE, last_known_size_ |-> current_size,
          poll_interval_ms_ |-> t.poll_interval_ms_, slept |-> 0]
    ELSE IF timeout_ms > 0 /\ elapsed >= timeout_ms
    THEN [done |-> TRUE, ret |-> FALSE, last_known_size_ |-> t.last_known_size_,
          poll_interval_ms_ |-> t.poll_interval_ms_, slept |-> 0]
    ELSE [done |-> FALSE, ret |-> FALSE, last_known_size_ |-> t.last_known_size_,
          poll_interval_ms_ |-> IF t.poll_interval_ms_ * 2 < MAX_POLL_INTERVAL_MS
                                THEN t.poll_interval_ms_ * 2 ELSE MAX_POLL_INTERVAL_MS,
          slept |-> t.poll_interval_ms_]

\* EventLogTailer::waitForModification(timeout_ms), polling build: one turn of
\* the while (true) loop, for the members t.last_known_size_ and
\* t.poll_interval_ms_, the size getFileSize returned and the time since the
\* call began; done: the call returned, otherwise it sleeps and loops
waitForModificationPolling(t, timeout_ms, current_size, elapsed) ==
    IF current_size > t.last_known_size_
    THEN [done |-> TRUE, ret |-> TRUE, last_known_size_ |-> current_size,
          poll_interval_ms_ |-> MIN_POLL_INTERVAL_MS, slept |-> 0]
    ELSE IF timeout_ms > 0 /\ elapsed >= timeout_ms
    THEN [done |-> TRUE, ret |-> FALSE, last_known_size_ |-> t.last_known_size_,
          poll_interval_ms_ |-> t.poll_interval_ms_, slept |-> 0]
    ELSE [done |-> FALSE, ret |-> FALSE, last_known_size_ |-> t.last_known_size_,
          poll_interval_ms_ |-> IF t.poll_interval_ms_ * 2 < MAX_POLL_INTERVAL_MS
                                THEN t.poll_interval_ms_ * 2 ELSE MAX_POLL_INTERVAL_MS,
          slept |-> t.poll_interval_ms_]

\* no call in progress; unset is the value of an item not yet assigned
FramesInit(unset) ==
    /\ current_tail = 0
    /\ next_tail = 0
    /\ p_item = unset
    /\ push_ret = FALSE
    /\ current_head = 0
    /\ c_item = unset
    /\ pop_ret = FALSE
    /\ pushed = <<>>
    /\ popped = <<>>
    /\ push_obs = 0
    /\ pop_obs = 0

\* ------------------------------------------------- external writer process
NoRec == [sequence_num |-> 0, event_type |-> 0, payload_length |-> 0, stored_length |-> 0, crc_ok |-> TRUE]

\* the records the writer may append next: sequence numbers count up from 1;
\* (readNext never advances past a record whose CRC fails, so what follows
\* such a record is never read: the model ends the file there)
Intact == \A i \in 1 .. Len(disk) : disk[i].crc_ok

\* the payload of the k-th record has k mod (MaxPayload + 1) bytes; its CRC
\* is right or wrong
NextRecords ==
    {[sequence_num |-> Len(disk) + 1, event_type |-> TRADE_CREATED,
      payload_length |-> (Len(disk) + 1) % (MaxPayload + 1),
      stored_length |-> (Len(disk) + 1) % (MaxPayload + 1), crc_ok |-> c] :
        c \in BOOLEAN}

\* records whose length field does not say what was written: a field within
\* 28 of 2^32 (0xFFFFFFE4, 0xFFFFFFFF), one byte less or one byte more than
\* the payload; the CRC of such a record fails
BadLengths(n) == {-RecordOverhead, -1, n + 1} \cup (IF n > 0 THEN {n - 1} ELSE {})
BadLengthRecords ==
    {[r EXCEPT !.stored_length = l] :
        r \in {x \in NextRecords : ~x.crc_ok},
        l \in BadLengths((Len(disk) + 1) % (MaxPayload + 1))}

\* a write to the watched file queues an inotify event (IN_MODIFY)
Notified == inotify_pending \/ (tailer.watch_fd_ >= 0 /\ tailer.inotify_fd_ \in kern.fds)

\* the writer appends one whole record
WriterAppend ==
    /\ file_kind = "ok"
    /\ tail_bytes = 0
    /\ Len(disk) < MaxRecords
    /\ Intact
    /\ \E rec \in NextRecords : disk' = Append(disk, rec)
    /\ inotify_pending' = Notified
    /\ UNCHANGED <<file_kind, tail_rec, tail_bytes, select_intr, kern>>
    /\ UNCHANGED <<ringVars, pushVars, popVars, histVars, objVars, sharedVars,
                   monVars, mainVars, logVars>>
    /\ UNCHANGED obsVars

\* the writer appends a record whose length field is wrong
WriterAppendBadLength ==
    /\ file_kind = "ok"
    /\ tail_bytes = 0
    /\ Len(disk) < MaxRecords
    /\ Intact
    /\ \E rec \in BadLengthRecords : disk' = Append(disk, rec)
    /\ inotify_pending' = Notified
    /\ UNCHANGED <<file_kind, tail_rec, tail_bytes, select_intr, kern>>
    /\ UNCHANGED <<ringVars, pushVars, popVars, histVars, objVars, sharedVars,
                   monVars, mainVars, logVars>>
    /\ UNCHANGED obsVars

\* the writer's write of a record reaches the file in two parts: the first
\* part ends inside the header or inside the trailing crc32 field
WriterBeginPartial ==
    /\ file_kind = "ok"
    /\ tail_bytes = 0
    /\ Len(disk) < MaxRecords
    /\ Intact
    /\ \E rec \in {r \in NextRecords : r.crc_ok} :
          \E k \in {PartialCut, TotalSize(rec) - 1} :
             /\ tail_rec' = rec
             /\ tail_bytes' = k
    /\ inotify_pending' = Notified
    /\ UNCHANGED <<file_kind, disk, select_intr, kern>>
    /\ UNCHANGED <<ringVars, pushVars, popVars, histVars, objVars, sharedVars,
                   monVars, mainVars, logVars>>
    /\ UNCHANGED obsVars

\* ... and the rest of it, which holds the last byte of the crc32 field
WriterFinishPartial ==
    /\ tail_bytes > 0
    /\ \E c \in BOOLEAN : disk' = Append(disk, [tail_rec EXCEPT !.crc_ok = c])
    /\ tail_rec' = NoRec
    /\ tail_bytes' = 0
    /\ inotify_pending' = Notified
    /\ UNCHANGED <<file_kind, select_intr, kern>>
    /\ UNCHANGED <<ringVars, pushVars, popVars, histVars, objVars, sharedVars,
                   monVars, mainVars, logVars>>
    /\ UNCHANGED obsVars

\* ------------------------------------------------- event_processor_main.cpp
\* void signalHandler(int signal), for SIGINT / SIGTERM; the handler may run
\* on the producer thread while it is inside select()
signalHandler ==
    /\ mainpc # "main_exit"
    /\ g_running' = FALSE
    /\ signalled' = TRUE
    /\ \E intr \in BOOLEAN : select_intr' = (select_intr \/ (intr /\ ppc = "p_wait"))
    /\ UNCHANGED <<file_kind, disk, tail_rec, tail_bytes, inotify_pending, kern>>
    /\ UNCHANGED <<ringVars, pushVars, popVars, histVars, objVars, events_read,
                   events_processed, monVars, mainVars, read_log, processed,
                   error_logged, io_fault>>
    /\ UNCHANGED obsVars

\* producerThread, lines 32-33: EventLogReader reader(log_path); reader.open();
ProducerOpen ==
    /\ ppc = "p_open"
    /\ \E stat_ok \in BOOLEAN, mmap_ok \in BOOLEAN :
          LET o == open(ReaderInit, kern, stat_ok, mmap_ok)
          IN /\ reader' = o.r
             /\ kern' = IF o.threw THEN ReaderDtor(o.r, o.k) ELSE o.k
             /\ ppc' = IF o.threw THEN "p_catch" ELSE "p_init"
    /\ UNCHANGED <<file_kind, disk, tail_rec, tail_bytes, inotify_pending, select_intr>>
    /\ UNCHANGED <<ringVars, current_tail, next_tail, p_item, push_ret, popVars,
                   histVars, tailer, sharedVars, monVars, mainVars, logVars>>
    /\ UNCHANGED obsVars

\* lines 35-40: EventLogTailer tailer(log_path); tailer.init();
ProducerInitTailer ==
    /\ ppc = "p_init"
    /\ \E init_ok \in BOOLEAN, watch_ok \in BOOLEAN :
          LET i == init(TailerInit, kern, init_ok, watch_ok)
          IN /\ tailer' = i.t
             /\ kern' = IF i.threw THEN ReaderDtor(reader, TailerDtor(i.t, i.k)) ELSE i.k
             /\ ppc' = IF i.threw THEN "p_catch" ELSE "p_loop"
    /\ UNCHANGED <<file_kind, disk, tail_rec, tail_bytes, inotify_pending, select_intr>>
    /\ UNCHANGED <<ringVars, current_tail, next_tail, p_item, push_ret, popVars,
                   histVars, reader, sharedVars, monVars, mainVars, logVars>>
    /\ UNCHANGED obsVars

\* a variant whose loop does not test the flag: while (true)
ProducerLoopIgnoresFlag ==
    /\ ppc = "p_loop"
    /\ p_item' = DefaultEvent
    /\ ppc' = "p_read"
    /\ kern' = kern
    /\ UNCHANGED <<file_kind, disk, tail_rec, tail_bytes, inotify_pending, select_intr>>
    /\ UNCHANGED <<ringVars, current_tail, next_tail, push_ret, popVars, histVars,
                   objVars, sharedVars, monVars, mainVars, logVars>>
    /\ UNCHANGED obsVars

\* lines 42-43: while (g_running.load(acquire)) { Event event; ... and, when
\* the flag is false, line 66 and the end of the try block: "Shutting down"
\* is printed, tailer and reader are destroyed
ProducerLoop ==
    /\ ppc = "p_loop"
    /\ IF g_running
       THEN /\ p_item' = DefaultEvent
            /\ ppc' = "p_read"
            /\ kern' = kern
       ELSE /\ p_item' = p_item
            /\ ppc' = "p_done"
            /\ kern' = ReaderDtor(reader, TailerDtor(tailer, kern))
    /\ UNCHANGED <<file_kind, disk, tail_rec, tail_bytes, inotify_pending, select_intr>>
    /\ UNCHANGED <<ringVars, current_tail, next_tail, push_ret, popVars, histVars,
                   objVars, sharedVars, monVars, mainVars, logVars>>
    /\ UNCHANGED obsVars

\* line 46: if (reader.readNext(event)) -> try_push(std::move(event)), else line 58
ProducerReadNext ==
    /\ ppc = "p_read"
    /\ LET rn == readNext(reader, p_item)
       IN /\ reader' = rn.r
          /\ kern' = IF rn.threw THEN ReaderDtor(rn.r, TailerDtor(tailer, kern)) ELSE kern
          /\ p_item' = rn.event
          /\ read_log' = IF rn.ret THEN Append(read_log, rn.event) ELSE read_log
          /\ ppc' = IF rn.threw THEN "p_catch"
                    ELSE IF rn.ret THEN "push_load_tail" ELSE "p_remap"
    /\ UNCHANGED <<file_kind, disk, tail_rec, tail_bytes, inotify_pending, select_intr>>
    /\ UNCHANGED <<ringVars, current_tail, next_tail, push_ret, popVars, histVars,
                   tailer, sharedVars, monVars, mainVars, processed, signalled,
                   error_logged, io_fault>>
    /\ UNCHANGED obsVars

\* lines 48-52: while (!buffer.try_push(std::move(event))): the call returned
\* false; if (!g_running.load(acquire)) return; yield(); and try again
ProducerSpin ==
    /\ ppc = "push_ret"
    /\ ~push_ret
    /\ IF ~g_running
       THEN /\ kern' = ReaderDtor(reader, TailerDtor(tailer, kern))
            /\ ppc' = "p_done"
       ELSE /\ kern' = kern
            /\ ppc' = "push_load_tail"
    /\ PushFrameGone
    /\ UNCHANGED <<file_kind, disk, tail_rec, tail_bytes, inotify_pending, select_intr>>
    /\ UNCHANGED <<ringVars, p_item, popVars, pushed, popped, pop_obs, objVars,
                   sharedVars, monVars, mainVars, logVars>>
    /\ UNCHANGED obsVars

\* a variant that does not count the event it has pushed
ProducerCountSkips ==
    /\ ppc = "push_ret"
    /\ push_ret
    /\ events_read' = events_read
    /\ p_item' = DefaultEvent
    /\ ppc' = "p_loop"
    /\ PushFrameGone
    /\ UNCHANGED <<ringVars, popVars, pushed, popped, pop_obs, envVars, objVars,
                   g_running, events_processed, monVars, mainVars, logVars>>
    /\ UNCHANGED obsVars

\* lines 48, 55: the call returned true; events_read.fetch_add(1, relaxed);
ProducerCount ==
    /\ ppc = "push_ret"
    /\ push_ret
    /\ events_read' = events_read + 1
    /\ p_item' = DefaultEvent
    /\ ppc' = "p_loop"
    /\ PushFrameGone
    /\ UNCHANGED <<ringVars, popVars, pushed, popped, pop_obs, envVars, objVars,
                   g_running, events_processed, monVars, mainVars, logVars>>
    /\ UNCHANGED obsVars

\* the effect of one remapIfGrown call of the producer; next: where it goes on
\* when the call returned ret
ProducerRemapCall(at, onTrue, onFalse) ==
    /\ ppc = at
    /\ \E stat_ok \in BOOLEAN, munmap_ok \in BOOLEAN, mmap_ok \in BOOLEAN :
          LET m == remapIfGrown(reader, kern, stat_ok, munmap_ok, mmap_ok)
          IN /\ reader' = m.r
             /\ kern' = IF m.threw THEN ReaderDtor(m.r, TailerDtor(tailer, m.k)) ELSE m.k
             /\ io_fault' = (io_fault \/ (reader.is_open_ /\ ~stat_ok))
             /\ ppc' = IF m.threw THEN "p_catch"
                       ELSE IF m.ret THEN onTrue ELSE onFalse
    /\ UNCHANGED <<file_kind, disk, tail_rec, tail_bytes, inotify_pending, select_intr>>
    /\ UNCHANGED <<ringVars, current_tail, next_tail, p_item, push_ret, popVars,
                   histVars, tailer, sharedVars, monVars, mainVars, read_log,
                   processed, signalled, error_logged>>
    /\ UNCHANGED obsVars

\* line 58: if (!reader.remapIfGrown()) {
ProducerRemap == ProducerRemapCall("p_remap", "p_loop", "p_wait")

\* line 60: tailer.waitForModification(100);
ProducerWait ==
    /\ ppc = "p_wait"
    /\ \E select_ret \in SelectReturns(WaitTimeoutMs), read_ok \in BOOLEAN :
          LET w == waitForModification(WaitTimeoutMs, select_ret, read_ok)
          IN /\ inotify_pending' = (inotify_pending /\ ~w.drained)
             /\ kern' = IF w.threw THEN ReaderDtor(reader, TailerDtor(tailer, kern)) ELSE kern
             /\ ppc' = IF w.threw THEN "p_catch" ELSE "p_remap_again"
    /\ select_intr' = FALSE
    /\ UNCHANGED <<file_kind, disk, tail_rec, tail_bytes>>
    /\ UNCHANGED <<ringVars, current_tail, next_tail, p_item, push_ret, popVars,
                   histVars, objVars, sharedVars, monVars, mainVars, logVars>>
    /\ UNCHANGED obsVars

\* line 61: reader.remapIfGrown();  // Try again
ProducerRemapAgain == ProducerRemapCall("p_remap_again", "p_loop", "p_loop")

\* lines 67-70: catch (const std::exception& e) { ...; g_running.store(false) }
ProducerCatch ==
    /\ ppc = "p_catch"
    /\ g_running' = FALSE
    /\ error_logged' = TRUE
    /\ ppc' = "p_done"
    /\ UNCHANGED <<ringVars, current_tail, next_tail, p_item, push_ret, popVars,
                   histVars, envVars, objVars, events_read, events_processed,
                   monVars, mainVars, read_log, processed, signalled, io_fault>>
    /\ failed' = failed \cup {"producer"}
    /\ rt' = rt
    /\ pt' = pt

\* a variant whose loop tests only the flag: while (g_running.load(acquire))
ConsumerLoopFlagOnly ==
    /\ cpc = "c_loop"
    /\ IF g_running
       THEN /\ c_item' = DefaultEvent
            /\ cpc' = "pop_load_head"
       ELSE /\ c_item' = c_item
            /\ cpc' = "c_done"
    /\ UNCHANGED <<ringVars, pushVars, current_head, pop_ret, histVars, pipeVars>>
    /\ UNCHANGED obsVars

\* a variant whose loop tests only the ring: while (!buffer.empty())
ConsumerLoopEmptyOnly ==
    /\ cpc = "c_loop"
    /\ IF ~empty
       THEN /\ c_item' = DefaultEvent
            /\ cpc' = "pop_load_head"
       ELSE /\ c_item' = c_item
            /\ cpc' = "c_done"
    /\ UNCHANGED <<ringVars, pushVars, current_head, pop_ret, histVars, pipeVars>>
    /\ UNCHANGED obsVars

\* consumerThread, line 82: while (g_running.load(acquire) || ...) { Event event; try_pop
ConsumerLoop ==
    /\ cpc = "c_loop"
    /\ IF g_running
       THEN /\ c_item' = DefaultEvent
            /\ cpc' = "pop_load_head"
       ELSE /\ c_item' = c_item
            /\ cpc' = "c_empty"
    /\ UNCHANGED <<ringVars, pushVars, current_head, pop_ret, histVars, pipeVars>>
    /\ UNCHANGED obsVars

\* line 82, second operand: ... || !buffer.empty()); when the ring is empty
\* the loop ends: lines 109-116, final summaries, "Consumer: Shutting down"
ConsumerCheckEmpty ==
    /\ cpc = "c_empty"
    /\ IF ~empty
       THEN /\ c_item' = DefaultEvent
            /\ cpc' = "pop_load_head"
       ELSE /\ c_item' = c_item
            /\ cpc' = "c_done"
    /\ UNCHANGED <<ringVars, pushVars, current_head, pop_ret, histVars, pipeVars>>
    /\ UNCHANGED obsVars

\* lines 85, 103-106: buffer.try_pop(event) returned false: yield()
ConsumerYield ==
    /\ cpc = "pop_ret"
    /\ ~pop_ret
    /\ cpc' = "c_loop"
    /\ PopFrameGone
    /\ UNCHANGED <<ringVars, pushVars, c_item, pushed, popped, push_obs, pipeVars>>
    /\ UNCHANGED obsVars

\* lines 85-102: buffer.try_pop(event) returned true:
\* validator.processEvent(event); events_processed.fetch_add(1);
\* latency_histogram.record(latency_ns) inserts into a std::map and may
\* throw std::bad_alloc (alloc_ok = FALSE)
ConsumerProcess ==
    /\ cpc = "pop_ret"
    /\ pop_ret
    /\ processed' = Append(processed, c_item)
    /\ events_processed' = events_processed + 1
    /\ c_item' = DefaultEvent
    /\ \E alloc_ok \in BOOLEAN : cpc' = IF alloc_ok THEN "c_loop" ELSE "c_catch"
    /\ PopFrameGone
    /\ UNCHANGED <<ringVars, pushVars, pushed, popped, push_obs,
                   envVars, objVars, g_running, events_read, monVars, mainVars,
                   read_log, signalled, error_logged, io_fault>>
    /\ UNCHANGED obsVars

\* lines 117-120: catch (const std::exception& e) { ...; g_running.store(false) }
ConsumerCatch ==
    /\ cpc = "c_catch"
    /\ g_running' = FALSE
    /\ error_logged' = TRUE
    /\ cpc' = "c_done"
    /\ UNCHANGED <<ringVars, pushVars, current_head, c_item, pop_ret, histVars,
                   envVars, objVars, events_read, events_processed, monVars,
                   mainVars, read_log, processed, signalled, io_fault>>
    /\ failed' = failed \cup {"consumer"}
    /\ rt' = rt
    /\ pt' = pt

\* monitorThread, line 131: while (g_running.load(acquire))
MonitorLoop ==
    /\ mpc = "m_loop"
    /\ mpc' = IF g_running THEN "m_sleep" ELSE "m_done"
    /\ UNCHANGED <<ringVars, pushVars, popVars, histVars, envVars, objVars,
                   sharedVars, mainVars, logVars>>
    /\ UNCHANGED obsVars

\* lines 132-146: sleep_for(5 s); events_read and events_processed are
\* loaded (relaxed) and printed with the rates since the last report. The
\* loaded values and last_read / last_processed feed only the printout.
MonitorReport ==
    /\ mpc = "m_sleep"
    /\ mpc' = "m_loop"
    /\ UNCHANGED <<ringVars, pushVars, popVars, histVars, envVars, objVars,
                   sharedVars, mainVars, logVars>>
    /\ UNCHANGED obsVars

\* main, lines 178-181: producer.join(); consumer.join(); g_running.store(false)
MainJoinWorkers ==
    /\ mainpc = "main_join"
    /\ ppc = "p_done"
    /\ cpc = "c_done"
    /\ g_running' = FALSE
    /\ mainpc' = "main_join_monitor"
    /\ UNCHANGED <<ringVars, pushVars, popVars, histVars, envVars, objVars,
                   events_read, events_processed, monVars, exit_code, logVars>>
    /\ UNCHANGED obsVars

\* lines 182-188: monitor.join(); totals are printed; return 0;
MainReturn ==
    /\ mainpc = "main_join_monitor"
    /\ mpc = "m_done"
    /\ exit_code' = 0
    /\ mainpc' = "main_exit"
    /\ UNCHANGED <<ringVars, pushVars, popVars, histVars, envVars, objVars,
                   sharedVars, monVars, logVars>>
    /\ UNCHANGED obsVars

\* ------------------------------------------- event_log_reader_test.cpp
\* The test body holds one EventLogReader (reader), one Event (rt.event) and
\* calls open, readNext and remapIfGrown while the file grows. rt records the
\* last call: the reader before it, what it returned or threw, and what the
\* file held at that moment.
NoCall ==
    [op |-> "none", ret |-> FALSE, threw |-> FALSE, what |-> NoException,
     before |-> ReaderInit, event |-> DefaultEvent, event_before |-> DefaultEvent,
     sys_ok |-> TRUE, io_failed |-> FALSE, st_size |-> 0,
     \* readNext: the positions of the mapping it read, the length field at
     \* offset_, whether the mapping was live
     reads |-> {}, stored_length |-> 0, live |-> FALSE,
     avail |-> FALSE, corrupt |-> FALSE, partial |-> FALSE,
     eof |-> FALSE, pend |-> 0, was_pend |-> 0, grew |-> 0, M |-> 0, base |-> 0,
     rets |-> <<>>,
     \* the tailer tests: the build, the argument of waitForModification,
     \* whether a change of the file was there to see when it returned, and
     \* the members and the clock of the polling build
     build |-> "none", timeout_ms |-> 0, observed |-> FALSE, elapsed |-> 0,
     last_known_size_ |-> 0, poll_interval_ms_ |-> MIN_POLL_INTERVAL_MS,
     \* the validator tests: DoubleEntryValidator::stats_, the event of the
     \* last processEvent, the number of calls and of TRADE_CREATED calls
     stats_ |-> [trades_validated |-> 0, validation_errors |-> 0, events_processed |-> 0],
     vevent |-> [event_type |-> 0, payload |-> <<>>], calls |-> 0, trade_calls |-> 0,
     \* a size() call of a monitoring thread: the head it loaded, its result
     h |-> 0, size_ret |-> 0]

\* the next record of the file lies whole inside the range r has mapped
InRange(r) ==
    LET k == Len(read_log) + 1
    IN /\ r.is_open_
       /\ k <= Len(disk)
       /\ StartOf(k) = r.offset_
       /\ StartOf(k) + TotalSize(disk[k]) <= r.file_size_

\* a call on a reader whose re-map threw would read through MAP_FAILED; the
\* tests (and the producer) make no call after that exception
ReaderUsable == ~(rt.op = "remapIfGrown" /\ rt.threw)

\* EventLogReader reader(path); reader.open();
TestReaderOpen ==
    /\ ppc = "r_test"
    /\ rt.op = "none"
    /\ \E stat_ok \in BOOLEAN, mmap_ok \in BOOLEAN :
          LET o == open(reader, kern, stat_ok, mmap_ok)
          IN /\ reader' = o.r
             /\ kern' = o.k
             /\ rt' = [rt EXCEPT !.op = "open", !.threw = o.threw,
                                 !.what = IF o.threw THEN RuntimeError ELSE NoException,
                                 !.before = reader,
                                 !.sys_ok = stat_ok /\ mmap_ok,
                                 !.io_failed = FALSE]
    /\ UNCHANGED <<file_kind, disk, tail_rec, tail_bytes, inotify_pending, select_intr>>
    /\ failed' = failed
    /\ pt' = pt
    /\ UNCHANGED <<ringVars, pushVars, popVars, histVars, tailer, sharedVars,
                   monVars, mainVars, logVars>>

\* reader.readNext(event)
TestReaderReadNext ==
    /\ ppc = "r_test"
    /\ rt.op # "none"
    /\ ReaderUsable
    /\ LET rn == readNext(reader, rt.event)
           k == Len(read_log) + 1
           whole == InRange(reader)
           part == reader.is_open_ /\ reader.offset_ < reader.file_size_ /\ ~whole
       IN /\ reader' = rn.r
          /\ read_log' = IF rn.ret THEN Append(read_log, rn.event) ELSE read_log
          /\ rt' = [rt EXCEPT
                      !.op = "readNext", !.ret = rn.ret, !.threw = rn.threw,
                      !.what = rn.what, !.before = reader,
                      !.event = rn.event, !.event_before = rt.event,
                      !.sys_ok = TRUE, !.io_failed = FALSE,
                      !.reads = readNextReads(reader),
                      !.stored_length = RecordAt(reader.offset_).stored_length,
                      !.live = reader.mapped_data_ = Mapped /\ kern.maps = 1,
                      !.avail = whole /\ disk[k].crc_ok,
                      !.corrupt = whole /\ ~disk[k].crc_ok,
                      !.partial = part,
                      !.eof = ~rn.ret /\ ~rn.threw,
                      !.was_pend = rt.pend,
                      !.pend = IF rn.ret THEN 0
                               ELSE IF part /\ ~rn.threw THEN k ELSE rt.pend,
                      !.grew = 0,
                      !.rets = IF rt.M >= 1 /\ Len(rt.rets) <= rt.M
                               THEN Append(rt.rets, rn.ret) ELSE rt.rets]
    /\ UNCHANGED envVars
    /\ failed' = failed
    /\ pt' = pt
    /\ UNCHANGED <<ringVars, pushVars, popVars, histVars, tailer, sharedVars,
                   monVars, mainVars, processed, signalled, error_logged, io_fault>>

\* reader.remapIfGrown()
TestReaderRemapIfGrown ==
    /\ ppc = "r_test"
    /\ rt.op # "none"
    /\ ReaderUsable
    /\ \E stat_ok \in BOOLEAN, munmap_ok \in BOOLEAN, mmap_ok \in BOOLEAN :
          LET m == remapIfGrown(reader, kern, stat_ok, munmap_ok, mmap_ok)
              unread == (Len(read_log) + 1) .. Len(disk)
              \* complete, intact records appended since readNext returned false
              grew == IF rt.eof /\ reader.is_open_ /\ \A i \in unread : disk[i].crc_ok
                      THEN Len(disk) - Len(read_log) ELSE 0
          IN /\ reader' = m.r
             /\ kern' = m.k
             /\ rt' = [rt EXCEPT
                         !.op = "remapIfGrown", !.ret = m.ret, !.threw = m.threw,
                         !.what = IF m.threw THEN RuntimeError ELSE NoException,
                         !.before = reader, !.event_before = rt.event,
                         !.sys_ok = stat_ok /\ munmap_ok /\ mmap_ok,
                         \* the size of the file at the time of the call
                         !.st_size = DiskSize,
                         \* a system call the call made has failed
                         !.io_failed =
                             /\ reader.is_open_
                             /\ \/ ~stat_ok
                                \/ /\ DiskSize > reader.file_size_
                                   /\ ~(munmap_ok /\ mmap_ok),
                         !.avail = FALSE, !.corrupt = FALSE, !.partial = FALSE,
                         !.eof = FALSE,
                         !.was_pend = rt.pend,
                         !.grew = grew,
                         !.M = IF m.ret THEN grew ELSE 0,
                         !.base = Len(read_log),
                         !.rets = <<>>]
    /\ UNCHANGED <<file_kind, disk, tail_rec, tail_bytes, inotify_pending, select_intr>>
    /\ failed' = failed
    /\ pt' = pt
    /\ UNCHANGED <<ringVars, pushVars, popVars, histVars, tailer, sharedVars,
                   monVars, mainVars, logVars>>

\* The tailer tests (EventLogTailerTest): one EventLogTailer on an existing
\* file, init, then calls of waitForModification while another thread appends.
\* rt.build is the build under test: inotify (Linux) or polling.
\* EventLogTailer::getFileSize: 0 when stat fails
getFileSize(stat_ok) == IF stat_ok THEN DiskSize ELSE 0

\* EventLogTailer tailer(test_file_path); tailer.init();
TestTailerInit ==
    /\ ppc = "t_test"
    /\ rt.op = "none"
    /\ \E build \in {"inotify", "polling"}, init_ok \in BOOLEAN,
          watch_ok \in BOOLEAN, stat_ok \in BOOLEAN :
          LET i == init(tailer, kern, init_ok, watch_ok)
          IN IF build = "inotify"
             THEN /\ tailer' = i.t
                  /\ kern' = i.k
                  /\ rt' = [rt EXCEPT !.op = "init", !.build = build, !.threw = i.threw]
             ELSE /\ UNCHANGED <<tailer, kern>>
                  /\ rt' = [rt EXCEPT !.op = "init", !.build = build, !.threw = FALSE,
                                      !.last_known_size_ = getFileSize(stat_ok),
                                      !.poll_interval_ms_ = MIN_POLL_INTERVAL_MS]
    /\ UNCHANGED <<file_kind, disk, tail_rec, tail_bytes, inotify_pending, select_intr>>
    /\ failed' = failed
    /\ pt' = pt
    /\ UNCHANGED <<ringVars, pushVars, popVars, histVars, reader, sharedVars,
                   monVars, mainVars, logVars>>

\* tailer.waitForModification(timeout_ms), inotify build; the call returns or
\* throws when select does, and with timeout_ms = 0 and no event queued
\* select does not return
TestTailerWait ==
    /\ ppc = "t_test"
    /\ rt.build = "inotify"
    /\ rt.op \in {"init", "waitForModification"}
    /\ ~rt.threw
    /\ \E timeout_ms \in {0, ShortTimeoutMs, WaitTimeoutMs}, read_ok \in BOOLEAN :
          \E select_ret \in SelectReturns(timeout_ms) :
             LET w == waitForModification(timeout_ms, select_ret, read_ok)
             IN /\ inotify_pending' = (inotify_pending /\ ~w.drained)
                /\ rt' = [rt EXCEPT !.op = "waitForModification", !.ret = w.ret,
                                    !.threw = w.threw, !.timeout_ms = timeout_ms,
                                    !.observed = inotify_pending]
    /\ UNCHANGED <<file_kind, disk, tail_rec, tail_bytes, select_intr, kern>>
    /\ failed' = failed
    /\ pt' = pt
    /\ UNCHANGED <<ringVars, pushVars, popVars, histVars, objVars, sharedVars,
                   monVars, mainVars, logVars>>

\* tailer.waitForModification(timeout_ms), polling build: the call begins
\* (rt.op becomes "polling") or goes through one more turn of its loop; the
\* clock advances by the time slept
TestTailerPoll ==
    /\ ppc = "t_test"
    /\ rt.build = "polling"
    /\ rt.op \in {"init", "waitForModification", "polling"}
    /\ \E timeout_ms \in (IF rt.op = "polling" THEN {rt.timeout_ms} ELSE {0, ShortTimeoutMs, WaitTimeoutMs}),
          stat_ok \in BOOLEAN :
          LET elapsed == IF rt.op = "polling" THEN rt.elapsed ELSE 0
              current_size == getFileSize(stat_ok)
              w == waitForModificationPolling(rt, timeout_ms, current_size, elapsed)
          IN rt' = [rt EXCEPT !.op = IF w.done THEN "waitForModification" ELSE "polling",
                              !.ret = w.ret, !.threw = FALSE,
                              !.timeout_ms = timeout_ms,
                              !.observed = /\ current_size > rt.last_known_size_
                                           /\ DiskSize > rt.last_known_size_,
                              !.elapsed = IF timeout_ms > 0 THEN elapsed + w.slept ELSE 0,
                              !.last_known_size_ = w.last_known_size_,
                              !.poll_interval_ms_ = w.poll_interval_ms_]
    /\ UNCHANGED envVars
    /\ failed' = failed
    /\ pt' = pt
    /\ UNCHANGED <<ringVars, pushVars, popVars, histVars, objVars, sharedVars,
                   monVars, mainVars, logVars>>

\* ------------------------------------------------- EventParser.cpp
\* Bytes are 0..255 and a buffer is a sequence of bytes: the C byte data[i]
\* is data[i + 1] here.  An unsigned integer wider than a byte is kept as a
\* sequence of 16-bit limbs, least significant limb first, so that uint32_t
\* and uint64_t keep their full width.
RECURSIVE BitXor(_, _)
BitXor(a, b) ==
    IF a = 0 THEN b
    ELSE IF b = 0 THEN a
    ELSE ((a + b) % 2) + 2 * BitXor(a \div 2, b \div 2)

\* static_cast<uint16_t>(data[0]) | (static_cast<uint16_t>(data[1]) << 8)
readUint16LE(data, at) == data[at + 1] + 256 * data[at + 2]

\* data[0] | data[1] << 8 | data[2] << 16 | data[3] << 24
readUint32LE(data, at) ==
    <<readUint16LE(data, at), readUint16LE(data, at + 2)>>

\* a variant that reads only the low four bytes of the eight
readUint64LELowHalf(data, at) ==
    <<readUint16LE(data, at), readUint16LE(data, at + 2), 0, 0>>

\* for (i = 0; i < 8; ++i) value |= static_cast<uint64_t>(data[i]) << (i * 8)
readUint64LE(data, at) ==
    [j \in 1..4 |-> readUint16LE(data, at + 2 * (j - 1))]

\* the generator polynomial of zlib's crc32, 0xEDB88320
CrcPoly == <<33568, 60856>>

Xor32(a, b) == <<BitXor(a[1], b[1]), BitXor(a[2], b[2])>>

\* n bit steps of zlib's crc32: shift right, xor the polynomial on a carry
RECURSIVE CrcBits(_, _)
CrcBits(c, n) ==
    IF n = 0 THEN c
    ELSE LET s == <<(c[1] \div 2) + 32768 * (c[2] % 2), c[2] \div 2>>
         IN CrcBits(IF c[1] % 2 = 1 THEN Xor32(s, CrcPoly) ELSE s, n - 1)

\* zlib's table: the register after the eight bit steps of one byte
CrcTable == [i \in 0..255 |-> CrcBits(<<i, 0>>, 8)]

\* one byte: crc_table[(c ^ b) & 0xff] ^ (c >> 8)
CrcByte(c, b) ==
    Xor32(CrcTable[BitXor(c[1] % 256, b)],
          <<(c[1] \div 256) + 256 * (c[2] % 256), c[2] \div 256>>)

\* zlib's crc32 over the bytes data[from .. to], on the running register c;
\* the range is split in two so that the evaluation stays shallow
RECURSIVE CrcUpdate(_, _, _, _)
CrcUpdate(c, data, from, to) ==
    IF from > to THEN c
    ELSE IF from = to THEN CrcByte(c, data[from])
    ELSE LET mid == (from + to) \div 2
         IN CHOOSE r \in {CrcUpdate(l, data, mid + 1, to) :
                            l \in {CrcUpdate(c, data, from, mid)}} : TRUE

\* a variant whose checksum stops after the 24-byte record header
calculateCRC32HeaderOnly(data, length) ==
    Xor32(CrcUpdate(<<65535, 65535>>, data, 1,
                    IF length < RecordHeader THEN length ELSE RecordHeader),
          <<65535, 65535>>)

\* crc32(crc32(0L, Z_NULL, 0), data, length)
calculateCRC32(data, length) ==
    Xor32(CrcUpdate(<<65535, 65535>>, data, 1, length), <<65535, 65535>>)

\* uint32_t arithmetic: a + n modulo 2^32, for a small n
Add32(a, n) ==
    LET lo == a[1] + n
    IN <<lo % 65536, (a[2] + lo \div 65536) % 65536>>

\* a length of this model (below 2^31) as a 32-bit word
ToU32(n) == <<n % 65536, n \div 65536>>
LessU32(a, b) == a[2] < b[2] \/ (a[2] = b[2] /\ a[1] < b[1])

\* what a call of parse gives: an event, or an exception
NoEvent == [sequence_num |-> <<>>, timestamp_ns |-> <<>>, event_type |-> 0,
            payload |-> <<>>, crc32 |-> <<>>]
ParseThrows(e, msg) ==
    [what |-> e, msg |-> msg, event |-> NoEvent, undefined |-> FALSE]
ParseReturns(ev) ==
    [what |-> NoException, msg |-> "", event |-> ev, undefined |-> FALSE]
\* a read past the end of the caller's buffer: any outcome is possible
ParseUndefined ==
    [what |-> NoException, msg |-> "", event |-> NoEvent, undefined |-> TRUE]

\* a variant that reports a record cut inside its payload as corrupted
parseCutIsCorrupt(data, length) ==
    IF length < RecordOverhead
    THEN ParseThrows(ParseException, "Insufficient data for event record")
    ELSE
      LET payload_length == readUint32LE(data, 20)
          expected_total == Add32(payload_length, RecordOverhead)
      IN
        IF LessU32(ToU32(length), expected_total)
        THEN ParseThrows(CorruptedEventException, "Insufficient data: expected more bytes")
        ELSE IF LessU32(expected_total, payload_length)
        THEN ParseUndefined
        ELSE
          LET n == payload_length[1] + 65536 * payload_length[2]
              stored_crc == readUint32LE(data, RecordHeader + n)
              calculated_crc == calculateCRC32(data, RecordHeader + n)
          IN
            IF calculated_crc # stored_crc
            THEN ParseThrows(CorruptedEventException, "CRC32 mismatch")
            ELSE ParseReturns(
                   [sequence_num |-> readUint64LE(data, 0),
                    timestamp_ns |-> readUint64LE(data, 8),
                    event_type |-> data[16 + 1],
                    payload |-> SubSeq(data, RecordHeader + 1, RecordHeader + n),
                    crc32 |-> stored_crc])

\* Event EventParser::parse(const uint8_t* data, size_t length)
\*   28 + payload_length is computed in uint32_t; when it wraps, the length
\*   check passes and payload.assign reads past the buffer
parse(data, length) ==
    IF length < RecordOverhead
    THEN ParseThrows(ParseException, "Insufficient data for event record")
    ELSE
      LET payload_length == readUint32LE(data, 20)
          expected_total == Add32(payload_length, RecordOverhead)
      IN
        IF LessU32(ToU32(length), expected_total)
        THEN ParseThrows(ParseException, "Insufficient data: expected more bytes")
        ELSE IF LessU32(expected_total, payload_length)
        THEN ParseUndefined
        ELSE
          LET n == payload_length[1] + 65536 * payload_length[2]
              stored_crc == readUint32LE(data, RecordHeader + n)
              calculated_crc == calculateCRC32(data, RecordHeader + n)
          IN
            IF calculated_crc # stored_crc
            THEN ParseThrows(CorruptedEventException, "CRC32 mismatch")
            ELSE ParseReturns(
                   [sequence_num |-> readUint64LE(data, 0),
                    timestamp_ns |-> readUint64LE(data, 8),
                    event_type |-> data[16 + 1],
                    payload |-> SubSeq(data, RecordHeader + 1, RecordHeader + n),
                    crc32 |-> stored_crc])

\* ------------------------------------------- event_parser_test.cpp
\* for (i = 0; i < n; ++i) push_back((value >> (i * 8)) & 0xFF)
BytesLE(value, n) ==
    [i \in 1..n |-> IF i % 2 = 1 THEN value[(i + 1) \div 2] % 256
                    ELSE value[i \div 2] \div 256]

\* createTestEvent: fields, three reserved zero bytes, payload length,
\* payload, and the CRC32 of everything so far
createTestEvent(seq, ts, type, payload) ==
    LET data == BytesLE(seq, 8) \o BytesLE(ts, 8) \o <<type, 0, 0, 0>>
                \o BytesLE(ToU32(Len(payload)), 4) \o payload
        crc == calculateCRC32(data, Len(data))
    IN data \o BytesLE(crc, 4)

\* the events the tests serialize: 1 and a sequence number with its top bit
\* set, the timestamp 9999999999, two event types, payloads of '{' and 0xFF
TestEvents ==
    [sequence_num : {<<1, 0, 0, 0>>, <<513, 2, 0, 32768>>},
     timestamp_ns : {<<58367, 21515, 2, 0>>},
     event_type : {TRADE_CREATED, 3},
     payload : UNION {[1..n -> {123, 255}] : n \in 0..MaxPayload},
     crc32 : {<<>>}]

\* no test has run
NoParse ==
    [op |-> "none", input |-> NoEvent, data |-> <<>>, length |-> 0,
     bit |-> -1, header |-> <<>>,
     out |-> [what |-> NoException, msg |-> "not called", event |-> NoEvent,
              undefined |-> FALSE]]

\* data[bit / 8] ^= 1 << (bit % 8)
FlipBit(data, bit) ==
    [data EXCEPT ![bit \div 8 + 1] = BitXor(@, 2 ^ (bit % 8))]

\* the outcomes a call can have: the one parse computes, or, after a read
\* past the buffer, any of them
Outcomes(r) ==
    IF r.undefined
    THEN {ParseUndefined, ParseReturns(NoEvent),
          ParseThrows(ParseException, "Insufficient data: expected more bytes"),
          ParseThrows(CorruptedEventException, "CRC32 mismatch")}
    ELSE {r}

\* Event event = EventParser::parse(data.data(), data.size())
TestParse ==
    /\ pt.op = "createTestEvent"
    /\ \E out \in Outcomes(parse(pt.data, pt.length)) :
         pt' = [pt EXCEPT !.op = "parse", !.out = out]
    /\ failed' = failed
    /\ rt' = rt
    /\ UNCHANGED <<ringVars, pushVars, popVars, histVars, pipeVars>>

\* one bit of the serialized record is flipped, then parse
TestParseBitFlipped ==
    /\ pt.op = "createTestEvent"
    /\ \E bit \in 0..(8 * pt.length - 1) :
         LET data == FlipBit(pt.data, bit)
         IN \E out \in Outcomes(parse(data, pt.length)) :
              pt' = [pt EXCEPT !.op = "flip", !.data = data, !.bit = bit,
                               !.out = out]
    /\ failed' = failed
    /\ rt' = rt
    /\ UNCHANGED <<ringVars, pushVars, popVars, histVars, pipeVars>>

\* only the first k bytes of the serialized record are given to parse
TestParseTruncated ==
    /\ pt.op = "createTestEvent"
    /\ \E k \in 0..(pt.length - 1) :
         LET data == SubSeq(pt.data, 1, k)
         IN \E out \in Outcomes(parse(data, k)) :
              pt' = [pt EXCEPT !.op = "truncate", !.data = data,
                               !.length = k, !.out = out]
    /\ failed' = failed
    /\ rt' = rt
    /\ UNCHANGED <<ringVars, pushVars, popVars, histVars, pipeVars>>

\* FileHeader::EXPECTED_MAGIC 0x54524144 and EXPECTED_VERSION 1, as the two
\* 16-bit halves readUint32LE yields
EXPECTED_MAGIC == <<16708, 21586>>
EXPECTED_VERSION == <<1, 0>>

\* FileHeader::isValid
isValid(header) ==
    header.magic = EXPECTED_MAGIC /\ header.version = EXPECTED_VERSION

\* EventParser::parseFileHeader(data, length)
parseFileHeader(data, length) ==
    IF length < HeaderSize
    THEN [what |-> ParseException, msg |-> "Insufficient data for file header",
          header |-> <<>>]
    ELSE
    LET header == [magic |-> readUint32LE(data, 0),
                   version |-> readUint32LE(data, 4),
                   reserved |-> readUint64LE(data, 8)]
    IN IF ~isValid(header)
       THEN [what |-> ParseException, msg |-> "Invalid file header", header |-> <<>>]
       ELSE [what |-> NoException, msg |-> "", header |-> header]

\* the header of ParseFileHeader_Valid: "TRAD", version 1, reserved 0
ValidHeaderBytes == <<68, 65, 82, 84, 1, 0, 0, 0, 0, 0, 0, 0, 0, 0, 0, 0>>

\* EventParser::parseFileHeader(header.data(), header.size()) on the valid
\* header, on the valid header with one bit flipped, and on its first k bytes
TestParseFileHeader ==
    /\ pt.op = "createTestEvent"
    /\ \E bit \in -1 .. (8 * HeaderSize - 1), k \in 0 .. HeaderSize :
         /\ bit >= 0 => k = HeaderSize
         /\ LET data == SubSeq(IF bit >= 0 THEN FlipBit(ValidHeaderBytes, bit)
                                ELSE ValidHeaderBytes, 1, k)
                h == parseFileHeader(data, k)
            IN pt' = [pt EXCEPT !.op = "parseFileHeader", !.data = data,
                                !.length = k, !.bit = bit, !.header = h.header,
                                !.out = [what |-> h.what, msg |-> h.msg,
                                         event |-> NoEvent, undefined |-> FALSE]]
    /\ failed' = failed
    /\ rt' = rt
    /\ UNCHANGED <<ringVars, pushVars, popVars, histVars, pipeVars>>

\* ------------------------------------------------- DoubleEntryValidator.cpp
\* A payload is the sequence of the quoted field names of its JSON text.
\* payload.find(key) != std::string::npos
Contains(payload, key) == \E i \in 1 .. Len(payload) : payload[i] = key

\* a variant that does not ask for the quantity field
validateTradeCreatedNoQuantity(stats, event) ==
    IF event.payload = <<>>
    THEN [stats EXCEPT !.validation_errors = @ + 1]
    ELSE IF ~Contains(event.payload, "\"trade_id\"") \/ ~Contains(event.payload, "\"symbol\"")
    THEN [stats EXCEPT !.validation_errors = @ + 1]
    ELSE [stats EXCEPT !.trades_validated = @ + 1]

\* DoubleEntryValidator::validateTradeCreated: stats_ after the call
validateTradeCreated(stats, event) ==
    IF event.payload = <<>>
    THEN [stats EXCEPT !.validation_errors = @ + 1]
    ELSE
    LET has_trade_id == Contains(event.payload, "\"trade_id\"")
        has_symbol == Contains(event.payload, "\"symbol\"")
        has_quantity == Contains(event.payload, "\"quantity\"")
    IN IF ~has_trade_id \/ ~has_symbol \/ ~has_quantity
       THEN [stats EXCEPT !.validation_errors = @ + 1]
       ELSE [stats EXCEPT !.trades_validated = @ + 1]

\* DoubleEntryValidator::processEvent: stats_ after the call
processEvent(stats, event) ==
    LET s1 == [stats EXCEPT !.events_processed = @ + 1]
    IN IF event.event_type = TRADE_CREATED THEN validateTradeCreated(s1, event)
       ELSE s1

\* the events of the validator tests: the three known types and two values
\* outside the enumeration; a payload holds up to MaxFields of the four
\* field names of a trade, in the order the writer emits them
ValidatorEvents ==
    LET names == <<"\"trade_id\"", "\"symbol\"", "\"quantity\"", "\"price\"">>
        Pick(S) == LET In(x) == x \in S IN SelectSeq(names, In)
    IN [event_type : {0, TRADE_CREATED, LEDGER_ENTRIES_GENERATED, POSITION_UPDATED, 255},
        payload : {Pick(S) : S \in {T \in SUBSET {names[i] : i \in 1 .. 4} :
                                       Cardinality(T) <= MaxFields}}]

\* validator.processEvent(event);
TestValidatorProcess ==
    /\ ppc = "v_test"
    /\ rt.calls < MaxCalls
    /\ \E event \in ValidatorEvents :
          rt' = [rt EXCEPT !.op = "processEvent",
                           !.stats_ = processEvent(rt.stats_, event),
                           !.vevent = event,
                           !.calls = @ + 1,
                           !.trade_calls = IF event.event_type = TRADE_CREATED
                                           THEN @ + 1 ELSE @]
    /\ failed' = failed
    /\ pt' = pt
    /\ UNCHANGED <<ringVars, pushVars, popVars, histVars, pipeVars>>

\* ------------------------------------------------- specifications
PipeIdle ==
    /\ file_kind = "ok"
    /\ disk = <<>>
    /\ tail_rec = NoRec
    /\ tail_bytes = 0
    /\ inotify_pending = FALSE
    /\ select_intr = FALSE
    /\ kern = KernInit
    /\ reader = ReaderInit
    /\ tailer = TailerInit
    /\ g_running = TRUE
    /\ events_read = 0
    /\ events_processed = 0
    /\ mpc = "m_loop"
    /\ mainpc = "main_join"
    /\ exit_code = -1
    /\ read_log = <<>>
    /\ processed = <<>>
    /\ signalled = FALSE
    /\ error_logged = FALSE
    /\ io_fault = FALSE

\* the SPSC tests of ring_buffer_test.cpp: RingBuffer<int, SIZE>, two threads
InitRing ==
    /\ SIZE \in {2 ^ k : k \in 1 .. LogSize}
    /\ RingInit
    /\ FramesInit(NoItem)
    /\ ppc = "idle"
    /\ cpc = "idle"
    /\ PipeIdle
    /\ failed = {}
    /\ rt = NoCall
    /\ pt = NoParse

NextRing ==
    \/ TestProducerCall
    \/ try_push_load_tail
    \/ try_push_load_head
    \/ try_push_write
    \/ try_push_store_tail
    \/ TestProducerReturn
    \/ TestConsumerCall
    \/ try_pop_load_head
    \/ try_pop_load_tail
    \/ try_pop_read
    \/ try_pop_store_head
    \/ TestConsumerReturn

SpecRing == InitRing /\ [][NextRing]_vars

\* the same two threads on a ring of 2^PipeLogSize slots, and a third thread
\* that calls size()
InitRingObserved ==
    /\ InitRing
    /\ SIZE = 2 ^ PipeLogSize

NextRingObserved ==
    \/ NextRing
    \/ size_load_head
    \/ size_load_tail

SpecRingObserved == InitRingObserved /\ [][NextRingObserved]_vars

\* RingBuffer<int, SIZE> for every template argument up to 2^LogSize that
\* the two static_asserts let compile, used by the same two threads
InitAnyRing ==
    /\ SIZE \in 0 .. 2 ^ LogSize
    /\ RingInit
    /\ FramesInit(NoItem)
    /\ ppc = "idle"
    /\ cpc = "idle"
    /\ PipeIdle
    /\ failed = {}
    /\ rt = NoCall
    /\ pt = NoParse

SpecAnyRing == InitAnyRing /\ [][NextRing]_vars

\* the reader tests of event_log_reader_test.cpp: one reader, one thread, the
\* file written by another process; the path names a missing file, a file
\* shorter than a header, one with a bad header, or a valid log
InitReader ==
    /\ SIZE = 2 ^ PipeLogSize
    /\ RingInit
    /\ FramesInit(NoItem)
    /\ ppc = "r_test"
    /\ cpc = "r_test"
    /\ file_kind \in {"ok", "missing", "too_small", "bad_header"}
    /\ disk = <<>>
    /\ tail_rec = NoRec
    /\ tail_bytes = 0
    /\ inotify_pending = FALSE
    /\ select_intr = FALSE
    /\ kern = KernInit
    /\ reader = ReaderInit
    /\ tailer = TailerInit
    /\ g_running = TRUE
    /\ events_read = 0
    /\ events_processed = 0
    /\ mpc = "m_loop"
    /\ mainpc = "main_join"
    /\ exit_code = -1
    /\ read_log = <<>>
    /\ processed = <<>>
    /\ signalled = FALSE
    /\ error_logged = FALSE
    /\ io_fault = FALSE
    /\ failed = {}
    /\ rt = NoCall
    /\ pt = NoParse

NextReader ==
    \/ TestReaderOpen
    \/ TestReaderReadNext
    \/ TestReaderRemapIfGrown
    \/ WriterAppend
    \/ WriterBeginPartial
    \/ WriterFinishPartial

SpecReader == InitReader /\ [][NextReader]_vars

\* the same reader on files that also hold records with a wrong length field
NextReaderBounds ==
    \/ NextReader
    \/ WriterAppendBadLength

SpecReaderBounds == InitReader /\ [][NextReaderBounds]_vars

\* the tailer tests of event_log_reader_test.cpp: the file exists; another
\* thread appends to it
InitTailer ==
    /\ SIZE = 2 ^ PipeLogSize
    /\ RingInit
    /\ FramesInit(NoItem)
    /\ ppc = "t_test"
    /\ cpc = "t_test"
    /\ file_kind = "ok"
    /\ disk = <<>>
    /\ tail_rec = NoRec
    /\ tail_bytes = 0
    /\ inotify_pending = FALSE
    /\ select_intr = FALSE
    /\ kern = KernInit
    /\ reader = ReaderInit
    /\ tailer = TailerInit
    /\ g_running = TRUE
    /\ events_read = 0
    /\ events_processed = 0
    /\ mpc = "m_loop"
    /\ mainpc = "main_join"
    /\ exit_code = -1
    /\ read_log = <<>>
    /\ processed = <<>>
    /\ signalled = FALSE
    /\ error_logged = FALSE
    /\ io_fault = FALSE
    /\ failed = {}
    /\ rt = NoCall
    /\ pt = NoParse

NextTailer ==
    \/ TestTailerInit
    \/ TestTailerWait
    \/ TestTailerPoll
    \/ WriterAppend
    \/ WriterBeginPartial
    \/ WriterFinishPartial

SpecTailer == InitTailer /\ [][NextTailer]_vars

\* the parser tests: one serialized record per run, and one call of parse on
\* it, whole, with one bit flipped, or cut short
InitParser ==
    /\ SIZE = 2 ^ PipeLogSize
    /\ RingInit
    /\ FramesInit(NoItem)
    /\ ppc = "e_test"
    /\ cpc = "e_test"
    /\ file_kind = "missing"
    /\ disk = <<>>
    /\ tail_rec = NoRec
    /\ tail_bytes = 0
    /\ inotify_pending = FALSE
    /\ select_intr = FALSE
    /\ kern = KernInit
    /\ reader = ReaderInit
    /\ tailer = TailerInit
    /\ g_running = TRUE
    /\ events_read = 0
    /\ events_processed = 0
    /\ mpc = "m_loop"
    /\ mainpc = "main_join"
    /\ exit_code = -1
    /\ read_log = <<>>
    /\ processed = <<>>
    /\ signalled = FALSE
    /\ error_logged = FALSE
    /\ io_fault = FALSE
    /\ failed = {}
    /\ rt = NoCall
    /\ \E e \in TestEvents :
         LET data == createTestEvent(e.sequence_num, e.timestamp_ns,
                                     e.event_type, e.payload)
         IN pt = [NoParse EXCEPT !.op = "createTestEvent", !.input = e,
                                 !.data = data, !.length = Len(data)]

NextParser ==
    \/ TestParse
    \/ TestParseBitFlipped
    \/ TestParseTruncated
    \/ TestParseFileHeader

SpecParser == InitParser /\ [][NextParser]_vars

\* the validator tests of event_log_reader_test.cpp: one DoubleEntryValidator
\* and a sequence of processEvent calls
InitValidator ==
    /\ SIZE = 2 ^ PipeLogSize
    /\ RingInit
    /\ FramesInit(NoItem)
    /\ ppc = "v_test"
    /\ cpc = "v_test"
    /\ file_kind = "missing"
    /\ disk = <<>>
    /\ tail_rec = NoRec
    /\ tail_bytes = 0
    /\ inotify_pending = FALSE
    /\ select_intr = FALSE
    /\ kern = KernInit
    /\ reader = ReaderInit
    /\ tailer = TailerInit
    /\ g_running = TRUE
    /\ events_read = 0
    /\ events_processed = 0
    /\ mpc = "m_loop"
    /\ mainpc = "main_join"
    /\ exit_code = -1
    /\ read_log = <<>>
    /\ processed = <<>>
    /\ signalled = FALSE
    /\ error_logged = FALSE
    /\ io_fault = FALSE
    /\ failed = {}
    /\ rt = NoCall
    /\ pt = NoParse

NextValidator == TestValidatorProcess

SpecValidator == InitValidator /\ [][NextValidator]_vars

\* the event processor: main has started the three threads; the log file is
\* missing, too short, has a bad header, or is a valid (possibly empty) log
InitPipe ==
    /\ SIZE = 2 ^ PipeLogSize
    /\ StaticAssertOk(SIZE)
    /\ head_ = 0
    /\ tail_ = 0
    /\ buffer_ = [i \in 0 .. SIZE - 1 |-> DefaultEvent]
    /\ FramesInit(DefaultEvent)
    /\ ppc = "p_open"
    /\ cpc = "c_loop"
    /\ file_kind \in {"ok", "missing", "too_small", "bad_header"}
    /\ disk = <<>>
    /\ tail_rec = NoRec
    /\ tail_bytes = 0
    /\ inotify_pending = FALSE
    /\ select_intr = FALSE
    /\ kern = KernInit
    /\ reader = ReaderInit
    /\ tailer = TailerInit
    /\ g_running = TRUE
    /\ events_read = 0
    /\ events_processed = 0
    /\ mpc = "m_loop"
    /\ mainpc = "main_join"
    /\ exit_code = -1
    /\ read_log = <<>>
    /\ processed = <<>>
    /\ signalled = FALSE
    /\ error_logged = FALSE
    /\ io_fault = FALSE
    /\ failed = {}
    /\ rt = NoCall
    /\ pt = NoParse

ProducerNext ==
    \/ ProducerOpen
    \/ ProducerInitTailer
    \/ ProducerLoop
    \/ ProducerReadNext
    \/ try_push_load_tail
    \/ try_push_load_head
    \/ try_push_write
    \/ try_push_store_tail
    \/ ProducerSpin
    \/ ProducerCount
    \/ ProducerRemap
    \/ ProducerWait
    \/ ProducerRemapAgain
    \/ ProducerCatch

ConsumerNext ==
    \/ ConsumerLoop
    \/ ConsumerCheckEmpty
    \/ try_pop_load_head
    \/ try_pop_load_tail
    \/ try_pop_read
    \/ try_pop_store_head
    \/ ConsumerYield
    \/ ConsumerProcess
    \/ ConsumerCatch

MonitorNext ==
    \/ MonitorLoop
    \/ MonitorReport

MainNext ==
    \/ MainJoinWorkers
    \/ MainReturn

WriterNext ==
    \/ WriterAppend
    \/ WriterBeginPartial
    \/ WriterFinishPartial

Next ==
    \/ ProducerNext
    \/ ConsumerNext
    \/ MonitorNext
    \/ MainNext
    \/ WriterNext
    \/ signalHandler

Spec == InitPipe /\ [][Next]_vars

\* the processor started on a log that already holds more records than the
\* ring has slots; nothing is appended while it runs
Backlog ==
    [k \in 1 .. SIZE + 2 |->
        [sequence_num |-> k, event_type |-> TRADE_CREATED,
         payload_length |-> k % (MaxPayload + 1),
         stored_length |-> k % (MaxPayload + 1), crc_ok |-> TRUE]]

InitBacklog ==
    /\ SIZE = 2 ^ PipeLogSize
    /\ StaticAssertOk(SIZE)
    /\ head_ = 0
    /\ tail_ = 0
    /\ buffer_ = [i \in 0 .. SIZE - 1 |-> DefaultEvent]
    /\ FramesInit(DefaultEvent)
    /\ ppc = "p_open"
    /\ cpc = "c_loop"
    /\ file_kind = "ok"
    /\ disk = Backlog
    /\ tail_rec = NoRec
    /\ tail_bytes = 0
    /\ inotify_pending = FALSE
    /\ select_intr = FALSE
    /\ kern = KernInit
    /\ reader = ReaderInit
    /\ tailer = TailerInit
    /\ g_running = TRUE
    /\ events_read = 0
    /\ events_processed = 0
    /\ mpc = "m_loop"
    /\ mainpc = "main_join"
    /\ exit_code = -1
    /\ read_log = <<>>
    /\ processed = <<>>
    /\ signalled = FALSE
    /\ error_logged = FALSE
    /\ io_fault = FALSE
    /\ failed = {}
    /\ rt = NoCall
    /\ pt = NoParse

NextBacklog ==
    \/ ProducerNext
    \/ ConsumerNext
    \/ MonitorNext
    \/ MainNext
    \/ signalHandler

SpecBacklog == InitBacklog /\ [][NextBacklog]_vars

\* every thread that can take a step eventually takes one
FairSpec ==
    /\ Spec
    /\ WF_vars(ProducerNext)
    /\ WF_vars(ConsumerNext)
    /\ WF_vars(MonitorNext)
    /\ WF_vars(MainNext)

\* ------------------------------------------------- properties of the ring
IsPrefix(s, t) == Len(s) <= Len(t) /\ \A i \in 1 .. Len(s) : s[i] = t[i]

\* C1 FIFO: the values returned by successful try_pop calls are a prefix of
\* the values accepted by successful try_push calls, and equal to them once
\* the ring is drained, also across index wrap-around.
C1_Fifo ==
    /\ IsPrefix(popped, pushed)
    /\ (empty /\ cpc \in {"idle", "pop_ret"}) => popped = pushed

\* more items than slots went through a ring of 4 slots, two values involved
C1_Witness ==
    /\ SIZE = 4
    /\ Len(popped) > SIZE
    /\ popped = pushed
    /\ \E i, j \in 1 .. Len(popped) : popped[i] # popped[j]

\* C2 conservation: never more successful pops than successful pushes; the
\* counts are equal once the producer has stopped and the ring is drained.
C2_Conservation ==
    /\ Len(popped) <= Len(pushed)
    /\ (ppc = "idle" /\ empty) => Len(popped) = Len(pushed)

\* the producer has pushed all it pushes, through a full ring, and all is popped
C2_Witness ==
    /\ ppc = "idle"
    /\ empty
    /\ Len(pushed) = MaxPush
    /\ Len(popped) = MaxPush

\* C3 no false full / empty: try_push returns false only if the ring held
\* SIZE - 1 unpopped items when it loaded head; try_pop returns false only if
\* the ring held none when it loaded tail.
C3_NoFalseFullEmpty ==
    /\ (ppc = "push_ret" /\ ~push_ret) => push_obs = SIZE - 1
    /\ (cpc = "pop_ret" /\ ~pop_ret) => pop_obs = 0

\* a try_pop that found the ring empty and a later try_push that found it
\* full, both about to return
C3_Witness ==
    /\ SIZE = 4
    /\ ppc = "push_ret" /\ ~push_ret
    /\ cpc = "pop_ret" /\ ~pop_ret

\* C4 reserved slot: head and tail stay in 0..SIZE-1, the number of unpopped
\* items is (tail - head) mod SIZE and at most SIZE - 1, head = tail exactly
\* when the ring is empty, (tail + 1) mod SIZE = head exactly when it is full,
\* and a push is refused exactly when SIZE - 1 items are in the ring.
C4_ReservedSlot ==
    /\ head_ \in 0 .. SIZE - 1
    /\ tail_ \in 0 .. SIZE - 1
    /\ Unpopped = (tail_ - head_) % SIZE
    /\ Unpopped \in 0 .. SIZE - 1
    /\ Unpopped = size
    /\ (head_ = tail_) <=> (Unpopped = 0)
    /\ ((tail_ + 1) % SIZE = head_) <=> (Unpopped = capacity)
    /\ ppc = "push_ret" => (push_ret <=> push_obs < SIZE - 1)

\* from the empty ring SIZE - 1 pushes were accepted and the next one refused
C4_Witness ==
    /\ SIZE = 4
    /\ popped = <<>>
    /\ Len(pushed) = SIZE - 1
    /\ ppc = "push_ret" /\ ~push_ret
    /\ cpc = "idle"

C6_ExactlyOnce ==
    mainpc = "main_exit" => (pushed = read_log /\ processed = read_log)

\* C7 drained on clean shutdown: after a signal, with no worker error, once
\* both workers have exited the ring is empty and every pushed event was
\* processed.
C7_DrainedOnShutdown ==
    (signalled /\ ~error_logged /\ ppc = "p_done" /\ cpc = "c_done")
        => (empty /\ Len(processed) = Len(pushed))

AllExited ==
    /\ ppc = "p_done"
    /\ cpc = "c_done"
    /\ mpc = "m_done"
    /\ mainpc = "main_exit"

\* C8 shutdown termination: once the shutdown flag is set, the producer, the
\* consumer and the monitor exit and main returns.
C8_ShutdownTerminates == (~g_running) ~> AllExited

\* the flag was set by a signal while the producer was spinning on a full
\* ring with an event in hand, and every thread has exited
C8_Witness ==
    /\ AllExited
    /\ signalled
    /\ Len(read_log) > Len(pushed)

\* C9 exit status: the process exits non-zero exactly when a worker took its
\* error path.
C9_ExitStatus == mainpc = "main_exit" => ((exit_code # 0) <=> error_logged)

\* C10 tail-follow liveness: with the flag never set and no I/O fault,
\* whenever the file holds a complete record that has not been handed to the
\* validator, eventually every complete record of the file has been: each
\* record was read after a remapIfGrown, pushed and processed.
\* (g_running never returns to TRUE and io_fault never to FALSE, so "never"
\* is the second and third disjunct.)
C10_TailFollow ==
    (Len(processed) < Len(disk))
        ~> (Len(processed) >= Len(disk) \/ ~g_running \/ io_fault)

\* the only record of the file was completed after the watch was set up (its
\* inotify event is still queued), so after open, and it has been processed
\* with the flag still unset
C10_Witness ==
    /\ g_running
    /\ ~io_fault
    /\ Len(disk) = 1
    /\ tail_bytes = 0
    /\ inotify_pending
    /\ Len(processed) = 1

\* ------------------------------------------------- properties of the reader
RECURSIVE SumRead(_)
SumRead(n) == IF n = 0 THEN 0 ELSE SumRead(n - 1) + RecordOverhead + read_log[n].payload_length

\* C11 growth resumption: when readNext has returned false at the end of the
\* file and M >= 1 complete records were then appended, the next remapIfGrown
\* (its system calls succeeding) returns true, the following M readNext calls
\* return true and yield those M records, and the call after them returns false.
C11_GrowthResumption ==
    /\ (rt.op = "remapIfGrown" /\ rt.grew >= 1 /\ rt.sys_ok) => (rt.ret /\ ~rt.threw)
    /\ rt.M >= 1 =>
          /\ \A i \in 1 .. Len(rt.rets) : rt.rets[i] = (i <= rt.M)
          /\ \A i \in 1 .. Len(rt.rets) :
                i <= rt.M => read_log[rt.base + i] = EventOf(disk[rt.base + i])

\* two records were appended after an end-of-file; the re-map returned true,
\* two reads succeeded and the third returned false
C11_Witness ==
    /\ rt.M >= 2
    /\ Len(rt.rets) = rt.M + 1
    /\ rt.op = "readNext"

\* C12 partial-record tolerance: a readNext that finds fewer bytes than one
\* complete record between the offset and the end of the mapping returns
\* false, throws nothing and leaves the offset alone; once the record is
\* complete and mapped, readNext returns it.
C12_PartialTolerance ==
    /\ (rt.op = "readNext" /\ rt.partial) =>
          (~rt.ret /\ ~rt.threw /\ reader.offset_ = rt.before.offset_)
    /\ (rt.op = "readNext" /\ rt.was_pend > 0 /\ rt.avail) =>
          (rt.ret /\ rt.event = EventOf(disk[rt.was_pend]))

\* a record that was mapped in part when readNext returned false has since
\* been completed, re-mapped and returned
C12_Witness ==
    /\ rt.op = "readNext"
    /\ rt.was_pend > 0
    /\ rt.ret
    /\ rt.event = EventOf(disk[rt.was_pend])

\* C13 file order, no duplicates: the events returned by successful readNext
\* calls are a prefix of the file's records, and none is returned twice.
C13_ReaderFileOrder ==
    /\ IsPrefix(read_log, FileEvents(disk))
    /\ \A i, j \in 1 .. Len(read_log) : i # j => read_log[i] # read_log[j]

\* every record was read, the last one after the file grew and was re-mapped
C13_Witness ==
    /\ Len(read_log) = MaxRecords
    /\ rt.M >= 1
    /\ rt.op = "readNext" /\ rt.ret

\* C14 offset invariant: once open, the offset is 16 plus the lengths of the
\* records returned so far; it never decreases, and only a successful
\* readNext changes it, by the length of the record it returned.
C14_OffsetInvariant ==
    /\ reader.is_open_ => reader.offset_ = HeaderSize + SumRead(Len(read_log))
    /\ (rt.op \in {"readNext", "remapIfGrown"} /\ rt.before.is_open_) =>
          /\ reader.offset_ >= rt.before.offset_
          /\ reader.offset_ # rt.before.offset_ =>
                /\ rt.op = "readNext"
                /\ rt.ret
                /\ reader.offset_ = rt.before.offset_ + RecordOverhead
                                      + rt.event.payload_length

\* two records of different lengths have been read
C14_Witness ==
    /\ reader.is_open_
    /\ Len(read_log) >= 2
    /\ read_log[1].payload_length # read_log[2].payload_length
    /\ rt.op = "readNext" /\ rt.ret

\* C15 remapIfGrown keeps the offset: whatever it returns or throws, the
\* offset after the call is the offset before it.
C15_RemapKeepsOffset ==
    rt.op = "remapIfGrown" => reader.offset_ = rt.before.offset_

\* a re-map that returned true with a record already read
C15_Witness ==
    /\ rt.op = "remapIfGrown"
    /\ rt.ret
    /\ reader.offset_ > HeaderSize
    /\ reader.file_size_ > rt.before.file_size_

\* C16 CRC failure leaves the reader unchanged: readNext on a complete record
\* whose CRC does not match throws CorruptedEventException; the offset and the
\* caller's event are what they were before the call.
C16_CrcFailureNoEffect ==
    (rt.op = "readNext" /\ rt.corrupt) =>
        /\ rt.threw
        /\ rt.what = CorruptedEventException
        /\ reader = rt.before
        /\ rt.event = rt.event_before

\* the second record is corrupt: the call threw with the first record still
\* in the caller's event
C16_Witness ==
    /\ rt.op = "readNext"
    /\ rt.corrupt
    /\ rt.threw
    /\ Len(read_log) >= 1
    /\ rt.event = read_log[Len(read_log)]

C19_Truncation ==
    pt.op = "truncate"
        => (~pt.out.undefined /\ pt.out.what = ParseException)

\* a record cut inside its payload or its CRC (the 24-byte header is whole)
C19_Witness ==
    /\ pt.op = "truncate"
    /\ pt.length >= RecordOverhead
    /\ Len(pt.input.payload) >= 1
    /\ pt.out.what = ParseException
    /\ pt.out.msg = "Insufficient data: expected more bytes"

\* C20: parsing the serialization of an event returns its sequence_num,
\* timestamp_ns, event_type and payload, and crc32 is the CRC of the first
\* 24 + payload_length serialized bytes
C20_FramingRoundTrip ==
    pt.op = "parse"
        => /\ ~pt.out.undefined
           /\ pt.out.what = NoException
           /\ pt.out.event.sequence_num = pt.input.sequence_num
           /\ pt.out.event.timestamp_ns = pt.input.timestamp_ns
           /\ pt.out.event.event_type = pt.input.event_type
           /\ pt.out.event.payload = pt.input.payload
           /\ pt.out.event.crc32 = calculateCRC32(pt.data, RecordHeader + Len(pt.input.payload))

\* an event whose sequence number and timestamp need more than 32 bits and
\* whose payload is not empty came back from parse
C20_Witness ==
    /\ pt.op = "parse"
    /\ pt.out.what = NoException
    /\ pt.out.event.sequence_num = <<513, 2, 0, 32768>>
    /\ pt.out.event.timestamp_ns = <<58367, 21515, 2, 0>>
    /\ pt.out.event.payload = <<123>>


\* ------------------------------------------------- failed open
\* C21: when open fails (file missing, shorter than 16 bytes, wrong magic or
\* version, or a failing system call) the reader is left not open, a
\* readNext on it returns no event, and the producer has read nothing and
\* pushed nothing into the ring.
C21_FailedOpenDeliversNothing ==
    /\ (file_kind # "ok" /\ ppc # "p_open") => ~reader.is_open_
    /\ (ppc # "p_open" /\ ~reader.is_open_) =>
          /\ ppc \in {"p_catch", "p_done"}
          /\ ~readNext(reader, p_item).ret
          /\ readNext(reader, p_item).event = p_item
          /\ read_log = <<>>
          /\ pushed = <<>>
          /\ \A i \in 0 .. SIZE - 1 : buffer_[i] = DefaultEvent

\* the header had a wrong magic or version: the producer took its error
\* path, both workers have exited and nothing went through the ring
C21_Witness ==
    /\ file_kind = "bad_header"
    /\ failed = {"producer"}
    /\ ppc = "p_done"
    /\ cpc = "c_done"
    /\ pushed = <<>>
    /\ processed = <<>>


\* ------------------------------------------------- capacity of the ring
\* C22: a ring can be instantiated only with a capacity that is a power of
\* two and at least 2, so that every ring has at least one usable slot.
C22_CapacityEnforcement ==
    /\ SIZE >= 2
    /\ BitAnd(SIZE, SIZE - 1) = 0
    /\ capacity >= 1


\* ------------------------------------------------- re-map errors
\* C23: every failure of a system call inside remapIfGrown (fstat, munmap of
\* the old view, mmap of the larger range) reaches the caller as an
\* exception; it is never reported as "the file has not grown".
C23_RemapErrorsFatal ==
    (rt.op = "remapIfGrown" /\ rt.io_failed) => rt.threw


\* ------------------------------------------------- resources
\* C24: on every path of the producer (clean exit, open failing at ::open,
\* fstat, the size check, mmap or the header, init failing, remapIfGrown or
\* waitForModification throwing) the reader and the tailer have been
\* destroyed when the thread function is left, and then no descriptor of
\* theirs is open and no mapping is live.
C24_ResourcesReleased ==
    ppc \in {"p_catch", "p_done"} => (kern.fds = {} /\ kern.maps = 0)

\* the reader was destroyed after its re-map found the file grown, unmapped
\* the old view and failed to map the new range
C24_Witness ==
    /\ ppc = "p_done"
    /\ reader.is_open_
    /\ reader.mapped_data_ = MAP_FAILED
    /\ tailer.watch_fd_ >= 0
    /\ kern.fds = {}
    /\ kern.maps = 0


\* ------------------------------------------------- non-blocking ring calls
\* C25: whatever the other thread is doing, the next step of a try_push or
\* try_pop in progress can be taken (nothing waits), every step the caller
\* takes moves the call forward (no retry loop), so a call returns after at
\* most four steps of its caller, and it returns true or false.
C25_NonBlocking ==
    /\ [](ppc \in {"push_load_tail", "push_load_head", "push_write", "push_store"} =>
            ENABLED (\/ try_push_load_tail \/ try_push_load_head
                     \/ try_push_write \/ try_push_store_tail))
    /\ [](cpc \in {"pop_load_head", "pop_load_tail", "pop_read", "pop_store"} =>
            ENABLED (\/ try_pop_load_head \/ try_pop_load_tail
                     \/ try_pop_read \/ try_pop_store_head))
    /\ [][LET steps == <<"push_load_tail", "push_load_head", "push_write",
                         "push_store", "push_ret">>
              Rank(pc) == CHOOSE i \in 1 .. 5 : steps[i] = pc
          IN (/\ \E i \in 1 .. 4 : steps[i] = ppc
              /\ <<ringVars, pushVars>>' # <<ringVars, pushVars>>
              /\ popVars' = popVars)
             => (/\ \E i \in 1 .. 5 : steps[i] = ppc'
                 /\ Rank(ppc') > Rank(ppc))]_vars
    /\ [][LET steps == <<"pop_load_head", "pop_load_tail", "pop_read",
                         "pop_store", "pop_ret">>
              Rank(pc) == CHOOSE i \in 1 .. 5 : steps[i] = pc
          IN (/\ \E i \in 1 .. 4 : steps[i] = cpc
              /\ <<ringVars, popVars>>' # <<ringVars, popVars>>
              /\ pushVars' = pushVars)
             => (/\ \E i \in 1 .. 5 : steps[i] = cpc'
                 /\ Rank(cpc') > Rank(cpc))]_vars
    /\ [](ppc = "push_ret" => push_ret \in BOOLEAN)
    /\ [](cpc = "pop_ret" => pop_ret \in BOOLEAN)

\* a try_push ran from its first step to "return false" on a full ring while
\* the consumer stood still in the middle of a try_pop
C25_Witness ==
    /\ ppc = "push_ret"
    /\ ~push_ret
    /\ cpc = "pop_store"
    /\ Unpopped = capacity


\* ------------------------------------------------- the notifier's result
\* C26: a waitForModification that returned true had a change of the file to
\* see (an inotify event queued before or during the call; when polling, a
\* file size above the last known size); one that returned false was called
\* with timeout_ms > 0, saw no change, and when polling had used up its
\* timeout; a call with timeout_ms = 0 that has returned returned true.
C26_NotifierResult ==
    (rt.op = "waitForModification" /\ ~rt.threw) =>
        /\ rt.ret => rt.observed
        /\ ~rt.ret => /\ rt.timeout_ms > 0
                      /\ ~rt.observed
                      /\ rt.build = "polling" => rt.elapsed >= rt.timeout_ms
        /\ rt.timeout_ms = 0 => rt.ret

\* a call with timeout_ms = 0 has returned true and drained the event of an
\* append made by the other thread
C26_Witness ==
    /\ rt.op = "waitForModification"
    /\ rt.build = "inotify"
    /\ rt.timeout_ms = 0
    /\ rt.ret
    /\ ~inotify_pending
    /\ Len(disk) >= 1


\* ------------------------------------------------- publication of a slot
\* C27: with the slot write, the tail store, the slot read and the head store
\* as separate steps: a consumer about to read slot i finds there the oldest
\* unpopped item, whose write and tail store are both done; a step that
\* changes a slot changes only the slot at tail, which holds no unpopped item;
\* and never are the producer between its full check and its tail store and
\* the consumer between its empty check and its head store on the same slot.
C27_SlotExclusivity ==
    /\ [](cpc = "pop_read" =>
            /\ current_head = head_
            /\ Unpopped >= 1
            /\ buffer_[current_head] = pushed[Len(popped) + 1])
    /\ [](~(/\ ppc \in {"push_write", "push_store"}
            /\ cpc \in {"pop_read", "pop_store"}
            /\ current_tail = current_head))
    /\ [][\A i \in 0 .. SIZE - 1 :
            buffer_'[i] # buffer_[i] =>
               /\ ppc = "push_write"
               /\ i = tail_
               /\ \A k \in 0 .. Unpopped - 1 : (head_ + k) % SIZE # i
               /\ ~(cpc \in {"pop_read", "pop_store"} /\ current_head = i)]_vars

\* tail has wrapped around: the producer is about to write slot 0 again
\* while the consumer is about to read another slot
C27_Witness ==
    /\ SIZE = 4
    /\ Len(pushed) = SIZE
    /\ ppc = "push_write"
    /\ current_tail = 0
    /\ cpc = "pop_read"
    /\ current_head # 0


\* ------------------------------------------------- writers of the indices
\* C28: tail changes only in the last step of a try_push that returns true,
\* head only in the last step of a try_pop that returns true; a try_push that
\* returns true has moved tail on by one modulo SIZE and left head as it was,
\* a try_pop that returns true has moved head on by one modulo SIZE and left
\* tail as it was, and a call that returns false has changed neither.
C28_SingleWriterIndices ==
    [][/\ tail_' # tail_ => (ppc = "push_store" /\ ppc' = "push_ret" /\ push_ret')
       /\ head_' # head_ => (cpc = "pop_store" /\ cpc' = "pop_ret" /\ pop_ret')
       /\ (ppc # "push_ret" /\ ppc' = "push_ret") =>
             /\ head_' = head_
             /\ tail_' = IF push_ret' THEN (tail_ + 1) % SIZE ELSE tail_
       /\ (cpc # "pop_ret" /\ cpc' = "pop_ret") =>
             /\ tail_' = tail_
             /\ head_' = IF pop_ret' THEN (head_ + 1) % SIZE ELSE head_]_vars

\* a try_push has returned true having moved tail from SIZE - 1 round to 0,
\* and a try_pop has returned true having moved head on
C28_Witness ==
    /\ SIZE = 4
    /\ ppc = "push_ret" /\ push_ret
    /\ Len(pushed) = SIZE
    /\ tail_ = 0
    /\ cpc = "pop_ret" /\ pop_ret
    /\ head_ = Len(popped)
    /\ head_ >= 1


\* ------------------------------------------------- exit of the consumer
\* C29: the consumer leaves its loop other than by an exception only in the
\* step that finds the ring empty, which it takes only after it found the
\* shutdown flag set (g_running false); a loop test that finds the flag unset
\* goes on to try_pop, and after the flag is set a test that finds the ring
\* non-empty goes on to try_pop, whose item is then processed.
C29_ConsumerExit ==
    /\ [](cpc = "c_empty" => ~g_running)
    /\ [][/\ (cpc # "c_done" /\ cpc' = "c_done" /\ cpc # "c_catch") =>
                (cpc = "c_empty" /\ ~g_running /\ empty)
          /\ (cpc = "c_loop" /\ g_running /\ cpc' # cpc) => cpc' = "pop_load_head"
          /\ (cpc = "c_empty" /\ ~empty /\ cpc' # cpc) => cpc' = "pop_load_head"
          /\ (cpc = "pop_ret" /\ pop_ret /\ cpc' # cpc) =>
                processed' = Append(processed, c_item)]_vars

\* the consumer has left its loop normally after a signal, having processed
\* every event that was pushed
C29_Witness ==
    /\ cpc = "c_done"
    /\ "consumer" \notin failed
    /\ signalled
    /\ ~g_running
    /\ empty
    /\ Len(processed) = MaxRecords
    /\ processed = pushed


\* ------------------------------------------------- shutdown by a signal
\* C30: the handler of SIGINT / SIGTERM changes nothing of the program but
\* the shutdown flag, and a producer whose select was interrupted by the
\* handler does not take its error path: it goes on to its loop test, finds
\* the flag set and shuts down.
C30_CleanSignalShutdown ==
    [][/\ (~signalled /\ signalled') =>
             /\ ~g_running'
             /\ UNCHANGED <<ringVars, pushVars, popVars, objVars, kern, failed,
                            error_logged, events_read, events_processed>>
       /\ (ppc = "p_wait" /\ select_intr /\ ppc' # ppc) =>
             (ppc' # "p_catch" /\ ~error_logged' /\ failed' = failed)]_vars


\* ------------------------------------------------- result of a re-map
\* C31: on an open reader a remapIfGrown whose system calls succeed returns
\* true exactly when the file is larger than the mapped size; a call that
\* returned true found the file larger and has made the mapped size the
\* file's size; a call that returned false has left the reader, mapped size
\* and mapping included, as it was. No call makes the mapped size smaller,
\* and the offset of an open reader is never beyond the mapped size.
C31_RemapResult ==
    /\ (rt.op = "remapIfGrown" /\ rt.before.is_open_) =>
          /\ rt.sys_ok =>
                /\ ~rt.threw
                /\ rt.ret <=> rt.st_size > rt.before.file_size_
          /\ rt.ret =>
                /\ rt.st_size > rt.before.file_size_
                /\ reader.file_size_ = rt.st_size
                /\ reader.mapped_data_ = Mapped
          /\ (~rt.ret /\ ~rt.threw) => reader = rt.before
    /\ (rt.op # "none" /\ rt.before.is_open_) =>
          reader.file_size_ >= rt.before.file_size_
    /\ reader.is_open_ => reader.offset_ <= reader.file_size_

\* a re-map has returned false on a file that had not grown, after an
\* earlier one had returned true and its record had been read
C31_Witness ==
    /\ rt.op = "remapIfGrown"
    /\ rt.sys_ok
    /\ ~rt.ret
    /\ rt.st_size = reader.file_size_
    /\ reader.file_size_ > HeaderSize
    /\ reader.offset_ = reader.file_size_


\* ------------------------------------------------- the notifier's timeout
\* C32: a waitForModification(timeout_ms) with timeout_ms > 0 that returns
\* false has blocked for no longer than timeout_ms (rt.elapsed is the time
\* the polling build has slept in the call; the inotify build sleeps in
\* select, which is given timeout_ms).
C32_TimeoutBound ==
    (rt.op = "waitForModification" /\ ~rt.threw /\ ~rt.ret /\ rt.timeout_ms > 0) =>
        rt.elapsed <= rt.timeout_ms


\* ------------------------------------------------- polling backoff
\* C33 as stated: in the polling build the backoff interval stays within
\* 10 .. 100 ms and is 10 after init; a poll that sees growth resets it to 10,
\* makes last_known_size_ the size seen and returns true; every poll that
\* sees no growth doubles it, up to 100.
C33_PollingBackoff ==
    /\ [](rt.build = "polling" =>
            rt.poll_interval_ms_ \in MIN_POLL_INTERVAL_MS .. MAX_POLL_INTERVAL_MS)
    /\ []((rt.build = "polling" /\ rt.op = "init") =>
            rt.poll_interval_ms_ = MIN_POLL_INTERVAL_MS)
    /\ [][(rt.build = "polling" /\ rt.op # "none" /\ rt' # rt) =>
            IF rt'.observed
            THEN /\ rt'.poll_interval_ms_ = MIN_POLL_INTERVAL_MS
                 /\ rt'.last_known_size_ = DiskSize
                 /\ rt'.op = "waitForModification" /\ rt'.ret
            ELSE /\ rt'.last_known_size_ = rt.last_known_size_
                 /\ rt'.poll_interval_ms_ =
                       IF 2 * rt.poll_interval_ms_ < MAX_POLL_INTERVAL_MS
                       THEN 2 * rt.poll_interval_ms_ ELSE MAX_POLL_INTERVAL_MS]_vars

\* C33: as above, but a poll that sees no growth doubles the interval only
\* when the call goes on to sleep; the poll at which the call times out and
\* returns false leaves the interval as it is. The interval changes to 10
\* only by a poll that sees growth.
C33_PollingBackoffUntilTimeout ==
    /\ [](rt.build = "polling" =>
            rt.poll_interval_ms_ \in MIN_POLL_INTERVAL_MS .. MAX_POLL_INTERVAL_MS)
    /\ []((rt.build = "polling" /\ rt.op = "init") =>
            rt.poll_interval_ms_ = MIN_POLL_INTERVAL_MS)
    /\ [][(rt.build = "polling" /\ rt.op # "none" /\ rt' # rt) =>
            IF rt'.observed
            THEN /\ rt'.poll_interval_ms_ = MIN_POLL_INTERVAL_MS
                 /\ rt'.last_known_size_ = DiskSize
                 /\ rt'.op = "waitForModification" /\ rt'.ret
            ELSE /\ rt'.last_known_size_ = rt.last_known_size_
                 /\ rt'.poll_interval_ms_ =
                       IF rt'.op = "waitForModification"
                       THEN rt.poll_interval_ms_
                       ELSE IF 2 * rt.poll_interval_ms_ < MAX_POLL_INTERVAL_MS
                       THEN 2 * rt.poll_interval_ms_ ELSE MAX_POLL_INTERVAL_MS]_vars

\* a call that had slept and doubled its interval has then seen the file
\* grow: it returned true with the interval back at 10
C33_Witness ==
    /\ rt.build = "polling"
    /\ rt.op = "waitForModification"
    /\ rt.ret
    /\ rt.elapsed > 0
    /\ rt.poll_interval_ms_ = MIN_POLL_INTERVAL_MS
    /\ rt.last_known_size_ = DiskSize
    /\ Len(disk) >= 1


\* ------------------------------------------------- validator statistics
\* C34: after any sequence of processEvent calls events_processed is the
\* number of calls and trades_validated + validation_errors the number of
\* calls with a TRADE_CREATED event; each such call adds one to exactly one
\* of the two, to trades_validated exactly when the payload holds the field
\* names trade_id, symbol and quantity; a call with an event of any other
\* type, known or not, changes neither.
C34_ValidatorStatistics ==
    /\ [](/\ rt.stats_.events_processed = rt.calls
          /\ rt.stats_.trades_validated + rt.stats_.validation_errors = rt.trade_calls)
    /\ [][rt'.calls = rt.calls + 1 =>
            LET e == rt'.vevent
                named == /\ \E i \in 1 .. Len(e.payload) : e.payload[i] = "\"trade_id\""
                         /\ \E i \in 1 .. Len(e.payload) : e.payload[i] = "\"symbol\""
                         /\ \E i \in 1 .. Len(e.payload) : e.payload[i] = "\"quantity\""
                dv == rt'.stats_.trades_validated - rt.stats_.trades_validated
                de == rt'.stats_.validation_errors - rt.stats_.validation_errors
            IN /\ rt'.stats_.events_processed = rt.stats_.events_processed + 1
               /\ IF e.event_type = TRADE_CREATED
                  THEN IF named THEN dv = 1 /\ de = 0 ELSE dv = 0 /\ de = 1
                  ELSE dv = 0 /\ de = 0]_vars

\* three calls: a trade with the three field names, a trade without the
\* quantity, and an event of an unknown type
C34_Witness ==
    /\ rt.calls = 3
    /\ rt.trade_calls = 2
    /\ rt.stats_.trades_validated = 1
    /\ rt.stats_.validation_errors = 1
    /\ rt.stats_.events_processed = 3
    /\ rt.vevent.event_type = 255


\* ------------------------------------------------- size, empty, capacity
\* C35: when no try_push and no try_pop is in progress, size() is the number
\* of accepted pushes less the number of successful pops, empty() holds
\* exactly when size() is 0, and size() is at most capacity() = SIZE - 1; a
\* size() call whose two loads are separated by steps of the other threads
\* returns a value in 0 .. SIZE - 1.
C35_QuiescentObservers ==
    /\ (ppc = "idle" /\ cpc = "idle") =>
          /\ size = Len(pushed) - Len(popped)
          /\ empty <=> size = 0
          /\ size <= capacity
          /\ capacity = SIZE - 1
    /\ rt.op = "size" => rt.size_ret \in 0 .. SIZE - 1

\* a size() call loaded head before a pop and tail after a later push, the
\* indices having wrapped around: both threads are at rest with the ring
\* empty, and the call has returned SIZE - 1
C35_Witness ==
    /\ rt.op = "size"
    /\ ppc = "idle"
    /\ cpc = "idle"
    /\ Len(popped) > SIZE
    /\ size = 0
    /\ empty
    /\ rt.size_ret = SIZE - 1


\* ------------------------------------------------- validity of the header
\* C36: parseFileHeader accepts 16 bytes exactly when the magic is
\* 0x54524144, the version is 1 and the eight reserved bytes are zero; every
\* other input is rejected with a ParseException.
C36_HeaderValidity ==
    pt.op = "parseFileHeader" =>
        IF /\ pt.length >= HeaderSize
           /\ readUint32LE(pt.data, 0) = EXPECTED_MAGIC
           /\ readUint32LE(pt.data, 4) = EXPECTED_VERSION
           /\ readUint64LE(pt.data, 8) = <<0, 0, 0, 0>>
        THEN pt.out.what = NoException
        ELSE pt.out.what = ParseException


\* ------------------------------------------------- failed ring operations
\* C37: a try_push that returns false has changed neither head, tail nor any
\* slot: every step a call takes before it writes the slot (the only steps of
\* a call that returns false) leaves them as they are.  The same holds for a
\* try_pop that returns false, which also leaves the caller's output argument
\* as it was when the call began.
C37_FailedOperationsNoEffect ==
    /\ [][((ppc \in {"push_load_tail", "push_load_head"} /\ ppc' # ppc) =>
              /\ UNCHANGED <<head_, tail_, buffer_>>
              /\ (ppc' = "push_ret" => ~push_ret'))
          /\ ((ppc' = "push_ret" /\ ppc # ppc' /\ ~push_ret') =>
                 ppc = "push_load_head")]_vars
    /\ [][((cpc \in {"pop_load_head", "pop_load_tail"} /\ cpc' # cpc) =>
              /\ UNCHANGED <<head_, tail_, buffer_, c_item>>
              /\ (cpc' = "pop_ret" => ~pop_ret'))
          /\ ((cpc' = "pop_ret" /\ cpc # cpc' /\ ~pop_ret') =>
                 cpc = "pop_load_tail")]_vars
    /\ []((cpc = "pop_ret" /\ ~pop_ret) => c_item = NoItem)

C37_Witness ==
    /\ ppc = "push_ret" /\ ~push_ret
    /\ cpc = "pop_ret" /\ ~pop_ret /\ c_item = NoItem
    /\ Len(popped) > 0


C40_NoDoubleRelease == ~kern.bad_close /\ ~kern.bad_unmap

====
